---- MODULE Spec2Model ----
(***************************************************************************)
(* StandX maker-points bot: MakerPointsBot + OrderManager as a state       *)
(* machine.  One task per running async handler; a task step is the        *)
(* completion of the venue / timer call the handler is awaiting, followed  *)
(* by the synchronous code that runs up to the next await.                 *)
(*                                                                         *)
(* Units: prices are integer multiples of the venue tick, quantities are   *)
(* multiples of orderSizeBtc, times are multiples of 1000 ms.              *)
(*                                                                         *)
(* Next is the whole program.  It is checked by facet: SpecQuote and       *)
(* SpecRace (start-up, price ticks, replace, restore), SpecFill (fills and *)
(* flattening) and SpecGuard (spread guard, reconnect); the last two start *)
(* from the state a clean start() leaves, which SpecQuote reaches.         *)
(* SpecFlat (flattening with room for the closing orders), SpecReconnect   *)
(* (reconnect against replace), SpecTimer (guard timer with a silent order *)
(* stream) and SpecPoll (one guard poll over every sample history) start   *)
(* from the same state; SpecCalc applies the pure functions.  SpecLive is   *)
(* the price stream without end, with the fairness the event loop gives    *)
(* (handlers are answered, ticks keep arriving); SpecOneSide starts from   *)
(* the quoting state of the modes 'buy' and 'sell'; SpecSocket is the      *)
(* StandXWebSocket client on its own (connect, disconnect, socket events,  *)
(* reconnect timers), which the bot's facets see only through wsOn and the *)
(* market_reconnected event.                                               *)
(* A venue call is answered within the time unit it was issued in: the     *)
(* clock advances only while no handler awaits a venue call.               *)
(***************************************************************************)
EXTENDS Integers, Sequences, FiniteSets, Bags, TLC

\* ---------------------------------------------------------------- bounds
\* MaxTime / FillTime: last clock value; MaxMarks / RaceMarks / FillMarks /
\* GuardMarks: mark_price events per run; the others cap what their name says
MaxTime == 4
MaxTasks == 2
MaxOrders == 3
MaxFills == 1
MaxFailures == 1
MaxReconnects == 1
MaxMarks == 2
RaceMarks == 3
FillTime == 3
FillMarks == 2
GuardMarks == 2
FlatOrders == 5
ReconnectOrders == 5
MaxSockets == 4
HistoryLen == 3
VolLen == 3
RefSpan == 60
QuantileLen == 3

\* ------------------------------------------------- configuration (trading)
OrderDistanceBp == 10
MinDistanceBp == 5
MaxDistanceBp == 15
ReplaceDeadZoneBp == 2
MinReplaceIntervalMs == 1
PositionCheckIntervalMs == 2
CloseSleepMs == 1
StartTime == 2

\* StandXWebSocket.maxReconnectAttempts (30 in the source), lowered so that
\* the cap is reached
maxReconnectAttempts == 2

\* config.trading.closePositionMode of the run ('market' or 'limit')
ClosePositionMode == "limit"

\* --------------------------------------------- configuration (spreadGuard)
JumpSpreadBp == 5
MaxSpreadBp == 20
BasisDiffBp == 15
LookbackSamples == 2
QuantileSamples == 3
VolLookbackSamples == 3
MaxQuantilePct == 95
VolHighThresholdBp == 5
VolLowThresholdBp == 1
HighVolJumpMultiplierX10 == 15
HighVolMaxMultiplierX10 == 15
LowVolJumpMultiplierX10 == 8
LowVolMaxMultiplierX10 == 8
CooldownMs == 2

\* ------------------------------------------------------------ input domains
Sides == {"buy", "sell"}
Modes == {"both"}
MarkPrices == {10000, 10007}
\* best bid / best ask pairs of the reference market: 2 bp, 20 bp, invalid
Bbos == {<<9999, 10001>>, <<9990, 10010>>, <<0, 10001>>}

\* mark prices of a stream without end: one more level, 10008, so that the
\* price can keep moving while an order placed around 10000 stays outside
\* the band (10007 and 10008 are both too close to 10010, too far from 9990)
LiveMarkPrices == MarkPrices \cup {10008}

\* mark prices for the polls: 0, 7 and 20 bp away from the reference mid
WatchMarks == MarkPrices \cup {10020}

\* spreads of earlier polls, in bp, as the sample buffer holds them
HistoryValues == {2, 5, 20}

\* reference prices at the scale of the instrument (93540.0 in ticks of 0.1)
RefBase == 935400

\* reference prices whose offset at 10 bp ends in half a tick (50.0, 150.0
\* and 93550.0)
TieRefs == {500, 1500, 935500}

RefPrices == MarkPrices \cup (RefBase .. (RefBase + RefSpan)) \cup TieRefs

\* spread samples and quantiles (in percent) for calculateSpreadQuantile
SampleValues == {1, 2, 5}

SampleLists ==
  UNION {[1..n -> SampleValues] : n \in 1..QuantileLen}
    \cup {<<1, 2, 3, 4, 5>>, <<5, 3, 1, 4, 2>>}

QuantilePcts == {0, 50, 90, 95, 100}

\* sample buffers for the volatility regime: [2,4] and [2,12] have a
\* standard deviation of exactly 1 and 5 bp
VolValues == {2, 4, 12, 20}

VolSampleLists == UNION {[1..n -> VolValues] : n \in 0..VolLen}

NULL == [id |-> 0, price |-> 0, status |-> "NONE"]

Abs(x) == IF x < 0 THEN -x ELSE x

Max2(a, b) == IF a >= b THEN a ELSE b

Opposite(s) == IF s = "buy" THEN "sell" ELSE "buy"

\* ------------------------------------------------------------ OrderManager

\* rounding of num/den ticks towards minus infinity, in place of
\* ROUND_HALF_UP
truncateToTickSize(num, den) == num \div den

\* rounding of num/den ticks to the nearest tick with ties towards minus
\* infinity, in place of ROUND_HALF_UP
roundHalfDown(num, den) == -((den - 2 * num) \div (2 * den))

\* roundToTickSize: ticks.toDecimalPlaces(0, ROUND_HALF_UP) of num/den ticks
\* (the rounded prices are positive, so half-up is floor(x + 1/2))
roundToTickSize(num, den) == (2 * num + den) \div (2 * den)

\* a price at twice the configured distance, in place of
\* markPrice * (1 -/+ distanceBp/10000)
priceAtTwiceDistance(side, mark, distanceBp) ==
  IF side = "buy"
  THEN mark + roundToTickSize(-(2 * mark * distanceBp), 10000)
  ELSE mark + roundToTickSize(2 * mark * distanceBp, 10000)

\* calculateOrderPrice: markPrice * (1 -/+ distanceBp/10000), tick-rounded.
\* mark is a whole number of ticks, so rounding the product rounds the
\* offset mark * distanceBp / 10000 alone (this keeps the intermediate
\* values small).
calculateOrderPrice(side, mark, distanceBp) ==
  IF side = "buy"
  THEN mark + roundToTickSize(-(mark * distanceBp), 10000)
  ELSE mark + roundToTickSize(mark * distanceBp, 10000)

\* ---------------------------------------------- checkAndReplaceOrders zones
\* distance = |mark - price| / price * 10000, compared by cross-multiplying
distanceLt(mark, price, bp) == Abs(mark - price) * 10000 < bp * price

distanceGt(mark, price, bp) == Abs(mark - price) * 10000 > bp * price

minReplaceBp == MinDistanceBp - ReplaceDeadZoneBp

maxReplaceBp == MaxDistanceBp + ReplaceDeadZoneBp

\* the zone check as it would be with the replace thresholds at min / max,
\* the dead zone left out
zoneOfNoDeadZone(mark, price) ==
  IF distanceLt(mark, price, MinDistanceBp) THEN "tooClose"
  ELSE IF distanceGt(mark, price, MaxDistanceBp) THEN "tooFar"
  ELSE "valid"

\* the if / else-if chain of checkAndReplaceOrders
zoneOf(mark, price) ==
  IF distanceLt(mark, price, minReplaceBp) THEN "tooClose"
  ELSE IF distanceGt(mark, price, maxReplaceBp) THEN "tooFar"
  ELSE IF distanceLt(mark, price, MinDistanceBp) THEN "deadZone"
  ELSE IF distanceGt(mark, price, MaxDistanceBp) THEN "deadZone"
  ELSE "valid"

\* ------------------------------------------------------ spread statistics
RECURSIVE SeqSum(_)
SeqSum(s) == IF s = <<>> THEN 0 ELSE Head(s) + SeqSum(Tail(s))

RECURSIVE SeqSumSq(_)
SeqSumSq(s) == IF s = <<>> THEN 0 ELSE Head(s) * Head(s) + SeqSumSq(Tail(s))

RECURSIVE Insert(_, _)
Insert(x, s) ==
  IF s = <<>> THEN <<x>>
  ELSE IF x <= Head(s) THEN <<x>> \o s
  ELSE <<Head(s)>> \o Insert(x, Tail(s))

\* the samples left in arrival order
Unsorted(s) == s

RECURSIVE SortAsc(_)
SortAsc(s) == IF s = <<>> THEN <<>> ELSE Insert(Head(s), SortAsc(Tail(s)))

\* spreadBp = (ask - bid) / ((bid + ask) / 2) * 10000; the division is exact
\* for the pairs of Bbos
spreadBpOf(bid, ask) == ((ask - bid) * 20000) \div (bid + ask)

\* mid * 2 of the reference market
mid2Of(bid, ask) == bid + ask

\* updateSpreadSamples: push, then shift once when over capacity
maxSamples == Max2(LookbackSamples, Max2(QuantileSamples, VolLookbackSamples))

\* a buffer that, once full, drops the new sample, in place of push / shift
keepOldestSamples(samples, spreadBp) ==
  IF Len(samples) >= maxSamples THEN samples ELSE Append(samples, spreadBp)

updateSpreadSamples(samples, spreadBp) ==
  LET pushed == Append(samples, spreadBp)
  IN IF Len(pushed) > maxSamples THEN Tail(pushed) ELSE pushed

\* the sample buffers earlier polls can have left: at most maxSamples samples
SpreadHistories ==
  UNION {[1..n -> HistoryValues] :
           n \in 0..(IF HistoryLen < maxSamples THEN HistoryLen
                     ELSE maxSamples)}

\* getRecentSamples: slice(-limit)
getRecentSamples(samples, limit) ==
  IF limit <= 0 THEN <<>>
  ELSE IF Len(samples) <= limit THEN samples
  ELSE SubSeq(samples, Len(samples) - limit + 1, Len(samples))

\* calculateSpreadQuantile, result scaled by 100.  The code evaluates the
\* expression in IEEE doubles (value.toNumber()); here it is evaluated exactly.
calculateSpreadQuantileX100(samples, quantilePct) ==
  IF Len(samples) = 0 THEN 0
  ELSE LET clamped == IF quantilePct > 100 THEN 100
                      ELSE IF quantilePct < 0 THEN 0 ELSE quantilePct
           sorted == SortAsc(samples)
       IN IF Len(sorted) = 1 THEN sorted[1] * 100
          ELSE LET position == (Len(sorted) - 1) * clamped
                   lowerIndex == position \div 100
                   upperIndex == IF position % 100 = 0 THEN lowerIndex
                                 ELSE lowerIndex + 1
                   lowerValue == sorted[lowerIndex + 1]
                   upperValue == sorted[upperIndex + 1]
                   weight == position - lowerIndex * 100
               IN lowerValue * 100 + (upperValue - lowerValue) * weight

\* calculateDynamicMaxSpread, result scaled by 100
calculateDynamicMaxSpreadX100(samples) ==
  LET q == calculateSpreadQuantileX100(
             getRecentSamples(samples, QuantileSamples), MaxQuantilePct)
  IN IF q > 0 THEN q ELSE MaxSpreadBp * 100

\* the comparison volatility > thr, in place of volatility.gte(thr)
volatilityGt(samples, thr) ==
  IF Len(samples) < 2 THEN 0 > thr
  ELSE Len(samples) * SeqSumSq(samples) - SeqSum(samples) * SeqSum(samples)
         > thr * thr * Len(samples) * Len(samples)

\* calculateSpreadVolatility compared with a threshold:
\* sqrt(sum((x-mean)^2)/n) >= thr  <=>  n*sum(x^2) - sum(x)^2 >= thr^2 * n^2
volatilityGe(samples, thr) ==
  IF Len(samples) < 2 THEN 0 >= thr
  ELSE Len(samples) * SeqSumSq(samples) - SeqSum(samples) * SeqSum(samples)
         >= thr * thr * Len(samples) * Len(samples)

volatilityLe(samples, thr) ==
  IF Len(samples) < 2 THEN 0 <= thr
  ELSE Len(samples) * SeqSumSq(samples) - SeqSum(samples) * SeqSum(samples)
         <= thr * thr * Len(samples) * Len(samples)

\* determineSpreadRegime over the volatility window
determineSpreadRegime(samples) ==
  LET vol == getRecentSamples(samples, VolLookbackSamples)
  IN IF volatilityGe(vol, VolHighThresholdBp) THEN "high"
     ELSE IF volatilityLe(vol, VolLowThresholdBp) THEN "low"
     ELSE "normal"

\* getRegimeAdjustments: multipliers scaled by 10
getRegimeAdjustments(samples) ==
  LET regime == determineSpreadRegime(samples)
  IN IF regime = "high"
     THEN [jump |-> HighVolJumpMultiplierX10, max |-> HighVolMaxMultiplierX10]
     ELSE IF regime = "low"
     THEN [jump |-> LowVolJumpMultiplierX10, max |-> LowVolMaxMultiplierX10]
     ELSE [jump |-> 10, max |-> 10]

\* basisDiffActive: threshold > 0 and |mark - mid| / mid * 10000 >= threshold
basisDiffActive(mark, bid, ask) ==
  /\ BasisDiffBp > 0
  /\ mark > 0
  /\ Abs(2 * mark - mid2Of(bid, ask)) * 10000 >= BasisDiffBp * mid2Of(bid, ask)

\* spreadJumped || spreadTooWide, on the samples that already hold spreadBp
spreadAnomaly(samples, spreadBp) ==
  LET recent == getRecentSamples(samples, LookbackSamples)
      n == Len(recent)
      total == SeqSum(recent)
      adj == getRegimeAdjustments(samples)
      spreadJumped ==
        /\ n > 0
        /\ total > 0
        /\ (spreadBp * n - total) * 10 >= JumpSpreadBp * adj.jump * n
      spreadTooWide ==
        spreadBp * 1000 >= calculateDynamicMaxSpreadX100(samples) * adj.max
  IN spreadJumped \/ spreadTooWide

\* ==================================================================== state
VARIABLES
  now,                       \* Date.now()
  mode,                      \* config.trading.mode
  isRunning,                 \* state.isRunning
  stopRequested,             \* stopRequested
  markPrice,                 \* markPrice / state.markPrice
  position,                  \* state.position
  buyOrder,                  \* state.buyOrder
  sellOrder,                 \* state.sellOrder
  lastReplaceAt,             \* state.lastReplaceAt
  spreadSamples,             \* spreadSamples
  spreadGuardTimer,          \* spreadGuardTimer is set
  spreadGuardCooldownUntil,  \* spreadGuardCooldownUntil
  lastPositionCheckAt,       \* lastPositionCheckAt
  wsOn,                      \* the WebSocket delivers events to the handlers
  started,                   \* start() has been called
  orders,                    \* the venue's orders, indexed by order id
  venuePos,                  \* the venue's net position
  posEv,                     \* a position_update message is pending
  tasks,                     \* bag of the async handlers in flight
  fills,                     \* number of quote fills so far
  fails,                     \* number of failed venue calls so far
  reconnects,                \* number of market_reconnected events so far
  lastPollAt,                \* time of the last setInterval callback
  lastExecAt,                \* per side: start time of the last executed replace
  marks,                     \* number of mark_price events so far
  lim,                       \* this run's limits: last time, mark_price events,
                             \* (0: any number), orders the venue accepts
  calc,                      \* the last call of a pure function, with its result
  ws,                        \* the StandXWebSocket client: its fields, sockets,
                             \* reconnect timers and connect() in flight
  log                        \* what the last step did (observations)

vars == <<now, mode, isRunning, stopRequested, markPrice, position, buyOrder,
          sellOrder, lastReplaceAt, spreadSamples, spreadGuardTimer,
          spreadGuardCooldownUntil, lastPositionCheckAt, wsOn, started,
          orders, venuePos, posEv, tasks, fills, fails, reconnects,
          lastPollAt, lastExecAt, marks, lim, calc, ws, log>>

\* the bot's fields as one record, for the synchronous code
Bot ==
  [isRunning |-> isRunning, stopRequested |-> stopRequested,
   markPrice |-> markPrice, position |-> position,
   buyOrder |-> buyOrder, sellOrder |-> sellOrder,
   lastReplaceAt |-> lastReplaceAt, spreadSamples |-> spreadSamples,
   spreadGuardTimer |-> spreadGuardTimer,
   spreadGuardCooldownUntil |-> spreadGuardCooldownUntil,
   lastPositionCheckAt |-> lastPositionCheckAt, wsOn |-> wsOn,
   lastExecAt |-> lastExecAt]

\* a handler invocation: where it awaits (pc), the callers' continuations
\* (stack) and its locals
NewTask(h) ==
  [h |-> h, pc |-> "run", stack |-> <<>>, side |-> "buy", fside |-> "buy",
   oid |-> 0, px |-> 0, t0 |-> 0, todo |-> {}, qty |-> 0, ok |-> TRUE,
   snap |-> {}, issued |-> {}, mk |-> 0]

Ctx(b, t) == [b |-> b, t |-> t, log |-> {}]

Await(c, pc) == [c EXCEPT !.t.pc = pc]

Push(c, label) == [c EXCEPT !.t.stack = <<label>> \o @]

Note(c, entry) == [c EXCEPT !.log = @ \cup {entry}]

Throw(c) == [c EXCEPT !.t.pc = "done", !.t.stack = <<>>]

SlotOf(b, side) == IF side = "buy" THEN b.buyOrder ELSE b.sellOrder

SetSlot(c, side, o) ==
  IF side = "buy" THEN [c EXCEPT !.b.buyOrder = o]
  ELSE [c EXCEPT !.b.sellOrder = o]

\* a guard that never cools down, in place of Date.now() < cooldownUntil
neverCoolingDown(b) == FALSE

\* isSpreadGuardCoolingDown
isSpreadGuardCoolingDown(b) == now < b.spreadGuardCooldownUntil

\* shouldRestoreOrders
shouldRestoreOrders(b) ==
  IF ~b.isRunning \/ b.stopRequested THEN FALSE
  ELSE IF isSpreadGuardCoolingDown(b) THEN FALSE
  ELSE IF b.markPrice = 0 THEN FALSE
  ELSE LET needsBuy == mode \in {"both", "buy"}
           needsSell == mode \in {"both", "sell"}
           buyOpen == b.buyOrder.status = "OPEN"
           sellOpen == b.sellOrder.status = "OPEN"
       IN (needsBuy /\ ~buyOpen) \/ (needsSell /\ ~sellOpen)

\* ------------------------------------------------------- synchronous code
\* Each operator runs a handler's code from one point up to the next await
\* and returns the context with the task's new pc.
RECURSIVE Ret(_), Resume(_, _)

\* OrderManager.cancelAllOrders: first await is client.getOpenOrders
cancelAllOrders(c) == Await([c EXCEPT !.t.todo = {}], "ca_query")

\* placeInitialOrders up to its first await
placeInitialOrders(c) == cancelAllOrders(Push(c, "pio_1"))

\* stop up to its first await
stop(c) ==
  cancelAllOrders(Push([c EXCEPT !.b.stopRequested = TRUE,
                                 !.b.isRunning = FALSE], "stop_1"))

\* OrderManager.closePosition: a reduce-only market order.  Every caller
\* passes (qty, side) only, so the order is a market order whatever
\* config.trading.closePositionMode says.
closePosition(c, qty, side) ==
  Await([c EXCEPT !.t.qty = qty, !.t.side = side], "cp_place")

\* closeDetectedPosition up to its first await
closeDetectedPosition(c, pos) ==
  cancelAllOrders(Push([c EXCEPT !.t.qty = Abs(pos),
                                 !.t.side = IF pos > 0 THEN "sell" ELSE "buy"],
                       "cdp_1"))

\* the new price taken from the mark price that triggered the replace, in
\* place of this.markPrice read after the cancel
replaceAtTriggerPrice(c, canceled) ==
  LET px == calculateOrderPrice(c.t.side, c.t.mk, OrderDistanceBp)
  IN Await(Note([c EXCEPT !.t.px = px],
                [e |-> "reprice", side |-> c.t.side, px |-> px,
                 trigger |-> c.t.mk, canceled |-> canceled]),
           "ro_place")

\* replaceOrder after the cancel answered (canceled or not): the new price
\* from the current mark price, then the placement request
replaceAfterCancel(c, canceled) ==
  LET px == calculateOrderPrice(c.t.side, c.b.markPrice, OrderDistanceBp)
  IN Await(Note([c EXCEPT !.t.px = px],
                [e |-> "reprice", side |-> c.t.side, px |-> px,
                 trigger |-> c.t.mk, canceled |-> canceled]),
           "ro_place")

\* a throttle that never lets a side be replaced twice, in place of the
\* interval check
replacedBefore(b, side) == b.lastReplaceAt[side] > 0

\* replaceOrder: now - lastReplaceAt < minReplaceIntervalMs
replaceThrottled(b, side) == now - b.lastReplaceAt[side] < MinReplaceIntervalMs

\* replaceOrder up to its first await (throttle, slot read, cancel request)
replaceOrder(c, side) ==
  IF replaceThrottled(c.b, side)
  THEN Ret(Note(c, [e |-> "throttled", side |-> side]))
  ELSE LET order == SlotOf(c.b, side)
       IN IF order = NULL THEN Ret(c)
          ELSE Await(Note([c EXCEPT !.t.side = side, !.t.oid = order.id,
                                    !.t.t0 = now, !.t.mk = c.b.markPrice,
                                    !.b.lastExecAt[side] = now],
                          [e |-> "exec", side |-> side,
                           gap |-> IF c.b.lastExecAt[side] < 0 THEN -1
                                   ELSE now - c.b.lastExecAt[side]]),
                     "ro_cancel")

\* checkAndReplaceOrders: the sell-side zone check
evalSell(c) ==
  LET o == c.b.sellOrder
  IN IF o # NULL /\ o.status = "OPEN"
     THEN LET trig == zoneOf(c.b.markPrice, o.price) \in {"tooClose", "tooFar"}
              c1 == Note(c, [e |-> "eval", side |-> "sell",
                             mark |-> c.b.markPrice, price |-> o.price,
                             trig |-> trig])
          IN IF trig THEN replaceOrder(c1, "sell") ELSE Ret(c1)
     ELSE Ret(c)

\* checkAndReplaceOrders: the buy-side zone check, then the sell side
evalBuy(c) ==
  LET o == c.b.buyOrder
  IN IF o # NULL /\ o.status = "OPEN"
     THEN LET trig == zoneOf(c.b.markPrice, o.price) \in {"tooClose", "tooFar"}
              c1 == Note(c, [e |-> "eval", side |-> "buy",
                             mark |-> c.b.markPrice, price |-> o.price,
                             trig |-> trig])
          IN IF trig THEN replaceOrder(Push(c1, "car_sell"), "buy")
             ELSE evalSell(c1)
     ELSE evalSell(c)

\* checkAndReplaceOrders up to its first await
checkAndReplaceOrders(c) ==
  IF ~c.b.isRunning \/ c.b.stopRequested THEN Ret(c)
  ELSE IF c.b.markPrice = 0 THEN Ret(c)
  ELSE IF isSpreadGuardCoolingDown(c.b) THEN Ret(c)
  ELSE IF shouldRestoreOrders(c.b) THEN placeInitialOrders(c)
  ELSE IF now - c.b.lastPositionCheckAt >= PositionCheckIntervalMs
       THEN Await([c EXCEPT !.t.t0 = now], "pos_read")
  ELSE evalBuy(c)

\* handleMarkPriceUpdate
handleMarkPriceUpdate(c, price) ==
  checkAndReplaceOrders([c EXCEPT !.b.markPrice = price])

\* a flatten is about to issue its closing order: the orders open on the
\* venue and the orders this handler has requested a cancel for
ClosingRequest(c, path) ==
  [e |-> "closeReq", path |-> path,
   open |-> {i \in 1..Len(orders) : orders[i].st = "OPEN"},
   issued |-> c.t.issued]

\* handleOrderFilled up to its first await
handleOrderFilled(c, id, side, qty) ==
  closePosition(
    Push(Note(Note([c EXCEPT !.t.fside = side, !.t.oid = id,
                             !.b.position = IF side = "buy" THEN @ + qty
                                            ELSE @ - qty],
                   [e |-> "filled", id |-> id,
                    held |-> id \in {c.b.buyOrder.id, c.b.sellOrder.id},
                    before |-> c.b.position]),
              ClosingRequest(c, "fill")),
         "hof_1"),
    qty, Opposite(side))

\* handleOrderUpdate
handleOrderUpdate(c, id, status, side, qty) ==
  LET c1 == IF c.b.buyOrder # NULL /\ c.b.buyOrder.id = id
            THEN [c EXCEPT !.b.buyOrder.status = status] ELSE c
      c2 == IF c1.b.sellOrder # NULL /\ c1.b.sellOrder.id = id
            THEN [c1 EXCEPT !.b.sellOrder.status = status] ELSE c1
  IN IF status = "FILLED" THEN handleOrderFilled(c2, id, side, qty) ELSE Ret(c2)

\* handlePositionUpdate
handlePositionUpdate(c, pos) ==
  LET previousPosition == c.b.position
      c1 == [c EXCEPT !.b.position = pos, !.b.lastPositionCheckAt = now]
  IN IF Abs(previousPosition) < 1 /\ Abs(pos) >= 1
     THEN closeDetectedPosition(c1, pos)
     ELSE Ret(c1)

\* start, after ensureZeroPosition: isRunning = true, placeInitialOrders
startRun(c) == placeInitialOrders(Push([c EXCEPT !.b.isRunning = TRUE], "st_2"))

\* initial quotes on both sides whatever the mode, in place of the mode test
quoteBothSides(c, sides) ==
  IF sides = {} THEN Ret(c)
  ELSE LET side == IF "buy" \in sides THEN "buy" ELSE "sell"
       IN Await([c EXCEPT !.t.side = side,
                          !.t.px = calculateOrderPrice(side, c.b.markPrice,
                                                       OrderDistanceBp)],
                "pio_place")

\* placeInitialOrders: the price of the next side to quote, or the return
pioNext(c, sides) ==
  IF "buy" \in sides /\ mode \in {"both", "buy"}
  THEN Await([c EXCEPT !.t.side = "buy",
                       !.t.px = calculateOrderPrice("buy", c.b.markPrice,
                                                    OrderDistanceBp)],
             "pio_place")
  ELSE IF "sell" \in sides /\ mode \in {"both", "sell"}
  THEN Await([c EXCEPT !.t.side = "sell",
                       !.t.px = calculateOrderPrice("sell", c.b.markPrice,
                                                    OrderDistanceBp)],
             "pio_place")
  ELSE Ret(c)

\* the code that follows a returning call, by continuation label
Resume(label, c) ==
  CASE label = "pio_1" -> pioNext(c, {"buy", "sell"})
    [] label = "stop_1" ->
         Ret([c EXCEPT !.b.wsOn = FALSE, !.b.spreadGuardTimer = FALSE])
    [] label = "cdp_1" ->
         closePosition(Push(Note(c, ClosingRequest(c, "detected")), "cdp_c"),
                       c.t.qty, c.t.side)
    [] label = "cdp_c" ->
         IF ~c.t.ok THEN stop(Note(c, [e |-> "flattenFailed"]))
         ELSE Await([c EXCEPT !.b.position = 0, !.t.t0 = now], "cdp_sleep")
    [] label = "hof_1" ->
         IF ~c.t.ok THEN stop(Note(c, [e |-> "flattenFailed"]))
         ELSE replaceOrder([c EXCEPT !.b.position = 0], c.t.fside)
    [] label = "cdp_2" -> Ret(c)
    [] label = "car_sell" -> evalSell(c)
    [] label = "sg_1" ->
         Ret(Note([c EXCEPT !.b.buyOrder = NULL, !.b.sellOrder = NULL,
                            !.b.spreadGuardCooldownUntil = now + CooldownMs],
                  [e |-> "guardDone", snap |-> c.t.snap,
                   issued |-> c.t.issued, fired |-> c.t.t0]))
    [] label = "st_c" -> IF c.t.ok THEN startRun(c) ELSE Throw(c)
    [] label = "st_2" -> Ret([c EXCEPT !.b.spreadGuardTimer = TRUE])
    [] label = "rc_1" ->
         Ret(Note(c, [e |-> "reconnectDone", snap |-> c.t.snap]))

\* return to the caller, or finish the handler
Ret(c) ==
  IF c.t.stack = <<>> THEN [c EXCEPT !.t.pc = "done"]
  ELSE Resume(Head(c.t.stack), [c EXCEPT !.t.stack = Tail(@)])

\* ================================================================== actions
SetBot(b) ==
  /\ isRunning' = b.isRunning
  /\ stopRequested' = b.stopRequested
  /\ markPrice' = b.markPrice
  /\ position' = b.position
  /\ buyOrder' = b.buyOrder
  /\ sellOrder' = b.sellOrder
  /\ lastReplaceAt' = b.lastReplaceAt
  /\ spreadSamples' = b.spreadSamples
  /\ spreadGuardTimer' = b.spreadGuardTimer
  /\ spreadGuardCooldownUntil' = b.spreadGuardCooldownUntil
  /\ lastPositionCheckAt' = b.lastPositionCheckAt
  /\ wsOn' = b.wsOn
  /\ lastExecAt' = b.lastExecAt

InStack(t, labels) == \E i \in 1..Len(t.stack) : t.stack[i] \in labels

\* the task is flattening: cancel-all and closing order of
\* closeDetectedPosition, or the closing order of handleOrderFilled
InFlatten(t) == InStack(t, {"cdp_1", "cdp_c", "hof_1"})

\* a position reading (event or REST read) as the bot meets it
Reading(src, pos, c1) ==
  [e |-> "reading", src |-> src, pos |-> pos, before |-> position,
   busy |-> \E u \in BagToSet(tasks) : InFlatten(u),
   flatten |-> InStack(c1.t, {"cdp_1"})]

\* a task's locals that are dead at its await point are cleared, so that two
\* tasks that behave the same are the same task
Live(t) ==
  [t EXCEPT
    !.side = IF t.pc \in {"ro_cancel", "ro_place", "pio_place", "cp_place"}
                \/ InStack(t, {"cdp_1"}) THEN @ ELSE "buy",
    !.fside = IF InStack(t, {"hof_1"}) THEN @ ELSE "buy",
    !.oid = IF t.pc = "ro_cancel" \/ InStack(t, {"hof_1"}) THEN @ ELSE 0,
    !.px = IF t.pc \in {"pio_place", "ro_place"} THEN @ ELSE 0,
    !.t0 = IF t.pc \in {"ro_cancel", "ro_place", "pos_read", "cdp_sleep"}
              \/ InStack(t, {"sg_1"}) THEN @ ELSE 0,
    !.todo = IF t.pc = "ca_cancel" THEN @ ELSE {},
    !.qty = IF t.pc = "cp_place" \/ InStack(t, {"cdp_1"}) THEN @ ELSE 0,
    !.ok = TRUE,
    !.snap = IF InStack(t, {"sg_1", "rc_1"}) THEN @ ELSE {},
    !.issued = IF InStack(t, {"sg_1", "cdp_1"}) THEN @ ELSE {},
    !.mk = IF t.pc = "ro_cancel" THEN @ ELSE 0]

\* a handler starts: it stays in flight only if it reached an await
Launch(c) ==
  /\ SetBot(c.b)
  /\ IF c.t.pc = "done" THEN tasks' = tasks
     ELSE /\ BagCardinality(tasks) < MaxTasks
          /\ tasks' = tasks (+) SetToBag({Live(c.t)})

\* a handler in flight continues after the call it awaited
Continue(t, c) ==
  /\ SetBot(c.b)
  /\ tasks' = IF c.t.pc = "done" THEN tasks (-) SetToBag({t})
              ELSE (tasks (-) SetToBag({t})) (+) SetToBag({Live(c.t)})

Running(pc) == {t \in BagToSet(tasks) : t.pc = pc}

OpenIds == {i \in 1..Len(orders) : orders[i].st = "OPEN"}

MinOf(S) == CHOOSE x \in S : \A y \in S : x <= y

\* which part of the bot a cancel or a placement of task t belongs to
PathOf(t) ==
  IF InStack(t, {"stop_1"}) THEN "stop"
  ELSE IF InStack(t, {"sg_1"}) THEN "guard"
  ELSE IF InStack(t, {"cdp_1", "cdp_c", "cdp_2"}) THEN "flatten"
  ELSE IF InStack(t, {"st_2"}) THEN "start"
  ELSE IF t.h = "reconnect" THEN "reconnect"
  ELSE IF InStack(t, {"pio_1"}) \/ t.pc = "pio_place" THEN "restore"
  ELSE IF t.h = "order" THEN "fill"
  ELSE "replace"

\* the venue's handling of a cancel request for order id
\* (client.cancelOrder: false when the order is not open or the call fails)
VenueCancel(t, id, okResult) ==
  IF okResult
  THEN /\ orders[id].st = "OPEN"
       /\ orders' = [orders EXCEPT ![id].st = "CANCELED", ![id].ev = TRUE]
       /\ fails' = fails
  ELSE /\ orders' = orders
       /\ IF orders[id].st = "OPEN"
          THEN fails < MaxFailures /\ fails' = fails + 1
          ELSE fails' = fails

CancelNote(t, id, okResult) ==
  IF okResult
  THEN {[e |-> "cancel", id |-> id, path |-> PathOf(t), out |-> orders[id].out]}
  ELSE {}

\* the venue's handling of a limit order request (client.placeOrder)
VenuePlace(t, okResult) ==
  IF okResult
  THEN /\ Len(orders) < lim.orders
       /\ orders' = Append(orders,
            [side |-> t.side, price |-> t.px, qty |-> 1, st |-> "OPEN",
             ro |-> FALSE, ev |-> FALSE, after |-> fills, at |-> 0,
             out |-> zoneOf(markPrice, t.px) \in {"tooClose", "tooFar"}])
       /\ fails' = fails
  ELSE /\ orders' = orders
       /\ IF Len(orders) < lim.orders
          THEN fails < MaxFailures /\ fails' = fails + 1
          ELSE fails' = fails

PlaceNote(t, okResult) ==
  IF okResult
  THEN {[e |-> "place", side |-> t.side, id |-> Len(orders) + 1,
         path |-> PathOf(t)]}
  ELSE {[e |-> "placeFailed", side |-> t.side, path |-> PathOf(t)]}

NewOrderInfo(t) == [id |-> Len(orders) + 1, price |-> t.px, status |-> "OPEN"]

\* ------------------------------------------------------------------ start
\* start(): stopRequested = false, then client.initialize / ws.connect
Start ==
  /\ ~started
  /\ BagCardinality(tasks) < MaxTasks
  /\ started' = TRUE
  /\ stopRequested' = FALSE
  /\ tasks' = tasks (+) SetToBag({[NewTask("start") EXCEPT !.pc = "st_connect"]})
  /\ log' = {}
  /\ UNCHANGED <<now, mode, lim, calc, ws, marks, isRunning, markPrice, position, buyOrder, sellOrder,
                 lastReplaceAt, spreadSamples, spreadGuardTimer,
                 spreadGuardCooldownUntil, lastPositionCheckAt, wsOn, orders,
                 venuePos, posEv, fills, fails, reconnects, lastPollAt,
                 lastExecAt>>

\* start(): connected, subscribed, handlers set up; waitForMarkPrice begins
StConnect ==
  \E t \in Running("st_connect") :
    /\ Continue(t, Await([Ctx(Bot, t) EXCEPT !.b.wsOn = TRUE], "st_wait"))
    /\ log' = {}
    /\ UNCHANGED <<now, mode, lim, calc, ws, marks, started, orders, venuePos, posEv, fills, fails,
                   reconnects, lastPollAt>>

\* start(): waitForMarkPrice sees a mark price; ensureZeroPosition queries
StWait ==
  \E t \in Running("st_wait") :
    /\ markPrice # 0
    /\ Continue(t, Await(Ctx(Bot, t), "st_pos"))
    /\ log' = {}
    /\ UNCHANGED <<now, mode, lim, calc, ws, marks, started, orders, venuePos, posEv, fills, fails,
                   reconnects, lastPollAt>>

\* start(): ensureZeroPosition got the position (client.getPosition: 0 on error)
StPos ==
  \E t \in Running("st_pos") :
    \E failed \in BOOLEAN :
      /\ failed => (venuePos # 0 /\ fails < MaxFailures)
      /\ fails' = IF failed THEN fails + 1 ELSE fails
      /\ LET pos == IF failed THEN 0 ELSE venuePos
             c == Ctx(Bot, t)
             c1 == IF Abs(pos) > 0
                   THEN closePosition(Push(c, "st_c"), Abs(pos),
                                      IF pos > 0 THEN "sell" ELSE "buy")
                   ELSE startRun(c)
         IN Continue(t, c1) /\ log' = c1.log
      /\ UNCHANGED <<now, mode, lim, calc, ws, marks, started, orders, venuePos, posEv, fills,
                     reconnects, lastPollAt>>

\* ------------------------------------------------------- cancelAllOrders
\* client.getOpenOrders answered ([] when the call fails)
CaQuery ==
  \E t \in Running("ca_query") :
    \E failed \in BOOLEAN :
      /\ failed => (OpenIds # {} /\ fails < MaxFailures)
      /\ fails' = IF failed THEN fails + 1 ELSE fails
      /\ LET found == IF failed THEN {} ELSE OpenIds
             c == [Ctx(Bot, t) EXCEPT !.t.todo = found, !.t.issued = {}]
             c1 == IF found = {} THEN Ret(c) ELSE Await(c, "ca_cancel")
         IN Continue(t, c1) /\ log' = c1.log
      /\ UNCHANGED <<now, mode, lim, calc, ws, marks, started, orders, venuePos, posEv, fills,
                     reconnects, lastPollAt>>

\* the cancel of the next listed order answered
CaCancel ==
  \E t \in Running("ca_cancel") :
    \E okResult \in BOOLEAN :
      LET id == MinOf(t.todo)
          c == [Ctx(Bot, t) EXCEPT !.t.todo = @ \ {id},
                                   !.t.issued = @ \cup {id}]
          c1 == IF c.t.todo = {} THEN Ret(c) ELSE c
      IN /\ VenueCancel(t, id, okResult)
         /\ Continue(t, c1)
         /\ log' = c1.log \cup CancelNote(t, id, okResult)
         /\ UNCHANGED <<now, mode, lim, calc, ws, marks, started, venuePos, posEv, fills,
                        reconnects, lastPollAt>>

\* ----------------------------------------------------- placeInitialOrders
\* the placement of one side's quote answered
PioPlace ==
  \E t \in Running("pio_place") :
    \E okResult \in BOOLEAN :
      LET c == IF okResult THEN SetSlot(Ctx(Bot, t), t.side, NewOrderInfo(t))
               ELSE Ctx(Bot, t)
          c1 == IF t.side = "buy" THEN pioNext(c, {"sell"}) ELSE Ret(c)
      IN /\ VenuePlace(t, okResult)
         /\ Continue(t, c1)
         /\ log' = c1.log \cup PlaceNote(t, okResult)
         /\ UNCHANGED <<now, mode, lim, calc, ws, marks, started, venuePos, posEv, fills,
                        reconnects, lastPollAt>>

\* ------------------------------------------------------------ replaceOrder
\* the cancel of the existing order answered; the new price is computed
RoCancel ==
  \E t \in Running("ro_cancel") :
    \E okResult \in BOOLEAN :
      LET c1 == replaceAfterCancel(Ctx(Bot, t), okResult)
      IN /\ VenueCancel(t, t.oid, okResult)
         /\ Continue(t, c1)
         /\ log' = c1.log \cup CancelNote(t, t.oid, okResult)
         /\ UNCHANGED <<now, mode, lim, calc, ws, marks, started, venuePos, posEv, fills,
                        reconnects, lastPollAt>>

\* the placement of the new order answered
RoPlace ==
  \E t \in Running("ro_place") :
    \E okResult \in BOOLEAN :
      LET c == [Ctx(Bot, t) EXCEPT !.b.lastReplaceAt[t.side] = t.t0]
          c1 == Ret(IF okResult THEN SetSlot(c, t.side, NewOrderInfo(t)) ELSE c)
      IN /\ VenuePlace(t, okResult)
         /\ Continue(t, c1)
         /\ log' = c1.log \cup PlaceNote(t, okResult)
                      \cup {[e |-> "replaced", side |-> t.side, px |-> t.px,
                              at |-> t.t0,
                              id |-> IF okResult THEN Len(orders) + 1 ELSE 0]}
         /\ UNCHANGED <<now, mode, lim, calc, ws, marks, started, venuePos, posEv, fills,
                        reconnects, lastPollAt>>

\* ----------------------------------------------------------- closePosition
\* the reduce-only market order answered.  accepted: the venue took it (the
\* client then reports it FILLED); it fills what it can reduce.
CpPlace ==
  \E t \in Running("cp_place") :
    \E accepted \in BOOLEAN :
      LET reducible == IF t.side = "sell" THEN Max2(venuePos, 0)
                       ELSE Max2(-venuePos, 0)
          filled == IF reducible < t.qty THEN reducible ELSE t.qty
          c1 == Ret(Note([Ctx(Bot, t) EXCEPT !.t.ok = accepted],
                         [e |-> "close", ok |-> accepted, side |-> t.side,
                          qty |-> t.qty, path |-> PathOf(t),
                          pos |-> venuePos,
                          filled |-> IF accepted THEN filled ELSE 0]))
      IN /\ IF accepted /\ filled > 0
            THEN /\ venuePos' = IF t.side = "sell" THEN venuePos - filled
                                ELSE venuePos + filled
                 /\ posEv' = Append(posEv, venuePos')
                 /\ orders' = IF Len(orders) < lim.orders
                              THEN Append(orders,
                                     [side |-> t.side, price |-> 0,
                                      qty |-> filled, st |-> "FILLED",
                                      ro |-> TRUE, ev |-> TRUE, after |-> fills,
                                      at |-> 0,
                                      out |-> FALSE])
                              ELSE orders
                 /\ fails' = fails
            ELSE /\ UNCHANGED <<venuePos, posEv, orders>>
                 /\ IF ~accepted /\ reducible > 0
                    THEN fails < MaxFailures /\ fails' = fails + 1
                    ELSE fails' = fails
         /\ Continue(t, c1)
         /\ log' = c1.log
         /\ UNCHANGED <<now, mode, lim, calc, ws, marks, started, fills, reconnects, lastPollAt>>

\* closeDetectedPosition: the 1000 ms pause is over; re-quote
CdpSleep ==
  \E t \in Running("cdp_sleep") :
    /\ now >= t.t0 + CloseSleepMs
    /\ LET c1 == placeInitialOrders(Push(Ctx(Bot, t), "cdp_2"))
       IN Continue(t, c1) /\ log' = c1.log
    /\ UNCHANGED <<now, mode, lim, calc, ws, marks, started, orders, venuePos, posEv, fills, fails,
                   reconnects, lastPollAt>>

\* checkAndReplaceOrders: getCurrentPosition answered (0 on error)
PosRead ==
  \E t \in Running("pos_read") :
    \E failed \in BOOLEAN :
      /\ failed => (venuePos # 0 /\ fails < MaxFailures)
      /\ fails' = IF failed THEN fails + 1 ELSE fails
      /\ LET pos == IF failed THEN 0 ELSE venuePos
             c == [Ctx(Bot, t) EXCEPT !.b.lastPositionCheckAt = t.t0,
                                      !.b.position = pos]
             c1 == IF Abs(pos) >= 1 THEN closeDetectedPosition(c, pos)
                   ELSE evalBuy(c)
         IN Continue(t, c1) /\ log' = c1.log \cup {Reading("read", pos, c1)}
      /\ UNCHANGED <<now, mode, lim, calc, ws, marks, started, orders, venuePos, posEv, fills,
                     reconnects, lastPollAt>>

\* ------------------------------------------------------------ spread guard
\* setInterval callback: checkBinanceSpread up to fetchBbo
Poll ==
  /\ spreadGuardTimer
  /\ lastPollAt < now
  /\ lastPollAt' = now
  /\ IF ~isRunning \/ stopRequested THEN tasks' = tasks
     ELSE /\ BagCardinality(tasks) < MaxTasks
          /\ tasks' = tasks (+) SetToBag({[NewTask("poll") EXCEPT !.pc = "sg_fetch"]})
  /\ log' = {}
  /\ UNCHANGED <<now, mode, lim, calc, ws, marks, isRunning, stopRequested, markPrice, position,
                 buyOrder, sellOrder, lastReplaceAt, spreadSamples,
                 spreadGuardTimer, spreadGuardCooldownUntil,
                 lastPositionCheckAt, wsOn, started, orders, venuePos, posEv,
                 fills, fails, reconnects, lastExecAt>>

\* checkBinanceSpread after fetchBbo returned bbo
checkBinanceSpread(c, bbo) ==
  IF bbo[1] <= 0 \/ bbo[2] <= 0 THEN Ret(c)
  ELSE LET spreadBp == spreadBpOf(bbo[1], bbo[2])
           c1 == [c EXCEPT !.b.spreadSamples = updateSpreadSamples(@, spreadBp)]
       IN \* config.spreadGuard.basisDiffGuardMultiplier is not in the config
          \* schema: new Decimal(undefined) throws
          IF basisDiffActive(c.b.markPrice, bbo[1], bbo[2]) THEN Throw(c1)
          ELSE IF isSpreadGuardCoolingDown(c1.b) THEN Ret(c1)
          ELSE IF spreadAnomaly(c1.b.spreadSamples, spreadBp)
          THEN cancelAllOrders(Push(Note([c1 EXCEPT !.t.snap = OpenIds, !.t.t0 = now],
                                         [e |-> "fire", spread |-> spreadBp]),
                                    "sg_1"))
          ELSE \* no anomaly: the handler returns (lines 960-979 hold no
               \* placement)
               Ret(Note(c1, [e |-> "pollIdle",
                             resumed |-> c1.b.spreadGuardCooldownUntil > 0,
                             running |-> c1.b.isRunning /\ ~c1.b.stopRequested,
                             unquoted |-> {side \in Sides :
                                             /\ mode \in {"both", side}
                                             /\ SlotOf(c1.b, side) = NULL}]))

\* the poll as it starts after fetchBbo: bid / ask valid, cooldown running,
\* basis diff at or above its threshold, samples held so far
PollNote(b, bbo) ==
  [e |-> "poll", valid |-> bbo[1] > 0 /\ bbo[2] > 0,
   cooling |-> isSpreadGuardCoolingDown(b),
   basis |-> basisDiffActive(b.markPrice, bbo[1], bbo[2]),
   before |-> b.spreadSamples]

\* fetchBbo answered, or threw
SgFetch ==
  \E t \in Running("sg_fetch") :
    \/ /\ fails < MaxFailures
       /\ fails' = fails + 1
       /\ Continue(t, Throw(Ctx(Bot, t)))
       /\ log' = {}
       /\ UNCHANGED <<now, mode, lim, calc, ws, marks, started, orders, venuePos, posEv, fills,
                      reconnects, lastPollAt>>
    \/ \E bbo \in Bbos :
         LET c1 == checkBinanceSpread(Ctx(Bot, t), bbo)
         IN /\ Continue(t, c1)
            /\ log' = c1.log \cup {PollNote(Bot, bbo)}
            /\ UNCHANGED <<now, mode, lim, calc, ws, marks, started, orders, venuePos, posEv, fills,
                           fails, reconnects, lastPollAt>>

\* ------------------------------------------------------- WebSocket events
\* the prices the stream of this run delivers
StreamPrices == IF lim.marks = 0 THEN LiveMarkPrices ELSE MarkPrices

\* 'mark_price': handleMarkPriceUpdate
MarkPriceEvent ==
  \E p \in StreamPrices :
    /\ wsOn
    /\ lim.marks = 0 \/ marks < lim.marks
    /\ marks' = IF lim.marks = 0 THEN marks ELSE marks + 1
    /\ LET c1 == handleMarkPriceUpdate(Ctx(Bot, NewTask("tick")), p)
       IN Launch(c1) /\ log' = c1.log
    /\ orders' = [i \in 1..Len(orders) |->
                    IF orders[i].st = "OPEN"
                       /\ zoneOf(p, orders[i].price) \in {"tooClose", "tooFar"}
                    THEN [orders[i] EXCEPT !.out = TRUE] ELSE orders[i]]
    /\ UNCHANGED <<now, mode, lim, calc, ws, started, venuePos, posEv, fills, fails,
                   reconnects, lastPollAt>>

\* 'order_update' for a filled or canceled order: handleOrderUpdate
OrderEvent ==
  \E i \in 1..Len(orders) :
    /\ wsOn
    /\ orders[i].ev
    /\ orders' = [orders EXCEPT ![i].ev = FALSE]
    /\ LET c1 == handleOrderUpdate(
                   Ctx(Bot, NewTask("order")),
                   i, orders[i].st, orders[i].side, orders[i].qty)
       IN Launch(c1) /\ log' = c1.log
    /\ UNCHANGED <<now, mode, lim, calc, ws, marks, started, venuePos, posEv, fills, fails,
                   reconnects, lastPollAt>>

\* 'position_update': handlePositionUpdate
PositionEvent ==
  /\ wsOn
  /\ posEv # <<>>
  /\ posEv' = Tail(posEv)
  /\ LET c1 == handlePositionUpdate(Ctx(Bot, NewTask("position")), Head(posEv))
     IN Launch(c1) /\ log' = c1.log \cup {Reading("event", Head(posEv), c1)}
  /\ UNCHANGED <<now, mode, lim, calc, ws, marks, started, orders, venuePos, fills, fails,
                 reconnects, lastPollAt>>

\* 'market_reconnected': resubscribe, placeInitialOrders (the orders open
\* at the event are remembered for the observation at its end)
ReconnectEvent ==
  /\ wsOn
  /\ markPrice # 0
  /\ reconnects < MaxReconnects
  /\ reconnects' = reconnects + 1
  /\ LET c == [Ctx(Bot, NewTask("reconnect")) EXCEPT !.t.snap = OpenIds]
         c1 == placeInitialOrders(Push(c, "rc_1"))
     IN Launch(c1) /\ log' = c1.log
  /\ UNCHANGED <<now, mode, lim, calc, ws, marks, started, orders, venuePos, posEv, fills, fails,
                 lastPollAt>>

\* ------------------------------------------------------------- environment
\* the venue fills a resting quote (at: the time of the fill)
VenueFill ==
  \E i \in 1..Len(orders) :
    /\ orders[i].st = "OPEN"
    /\ fills < MaxFills
    /\ fills' = fills + 1
    /\ orders' = [orders EXCEPT ![i].st = "FILLED", ![i].ev = TRUE,
                                ![i].at = now]
    /\ venuePos' = IF orders[i].side = "buy" THEN venuePos + orders[i].qty
                   ELSE venuePos - orders[i].qty
    /\ posEv' = Append(posEv, venuePos')
    /\ log' = {}
    /\ UNCHANGED <<now, mode, lim, calc, ws, marks, isRunning, stopRequested, markPrice, position,
                   buyOrder, sellOrder, lastReplaceAt, spreadSamples,
                   spreadGuardTimer, spreadGuardCooldownUntil,
                   lastPositionCheckAt, wsOn, started, tasks, fails,
                   reconnects, lastPollAt, lastExecAt>>

\* time passes, while no handler awaits a venue call
Tick ==
  /\ now < lim.time
  /\ \A t \in BagToSet(tasks) : t.pc \in {"st_wait", "cdp_sleep"}
  /\ now' = now + 1
  /\ log' = {}
  /\ UNCHANGED <<mode, lim, calc, ws, marks, isRunning, stopRequested, markPrice, position, buyOrder,
                 sellOrder, lastReplaceAt, spreadSamples, spreadGuardTimer,
                 spreadGuardCooldownUntil, lastPositionCheckAt, wsOn, started,
                 orders, venuePos, posEv, tasks, fills, fails, reconnects,
                 lastPollAt, lastExecAt>>

\* no pure function has been called on its own
NoCall == [fn |-> "none", side |-> "buy", ref |-> 0, samples |-> <<>>, q |-> 0,
           out |-> 0, regime |-> "none", jump |-> 0, max |-> 0]

\* everything but calc
botVars == <<now, mode, isRunning, stopRequested, markPrice, position,
             buyOrder, sellOrder, lastReplaceAt, spreadSamples,
             spreadGuardTimer, spreadGuardCooldownUntil, lastPositionCheckAt,
             wsOn, started, orders, venuePos, posEv, tasks, fills, fails,
             reconnects, lastPollAt, lastExecAt, marks, lim, ws, log>>

\* OrderManager.calculateOrderPrice called with the configured distance
CalcPrice ==
  \E side \in Sides, ref \in RefPrices :
    /\ calc' = [NoCall EXCEPT !.fn = "price", !.side = side, !.ref = ref,
                              !.out = calculateOrderPrice(side, ref,
                                                          OrderDistanceBp)]
    /\ UNCHANGED botVars

\* calculateSpreadQuantile called on a sample list
CalcQuantile ==
  \E samples \in SampleLists, q \in QuantilePcts :
    /\ calc' = [NoCall EXCEPT !.fn = "quantile", !.samples = samples,
                              !.q = q,
                              !.out = calculateSpreadQuantileX100(samples, q)]
    /\ UNCHANGED botVars

\* calculateDynamicMaxSpread called on a sample buffer (empty included)
CalcDynamicMax ==
  \E samples \in SampleLists \cup {<<>>} :
    /\ calc' = [NoCall EXCEPT !.fn = "dynamicMax", !.samples = samples,
                              !.q = MaxQuantilePct,
                              !.out = calculateDynamicMaxSpreadX100(samples)]
    /\ UNCHANGED botVars

\* getRegimeAdjustments called on a sample buffer: regime and multipliers
CalcRegime ==
  \E samples \in VolSampleLists :
    /\ calc' = [NoCall EXCEPT !.fn = "regime", !.samples = samples,
                              !.regime = determineSpreadRegime(samples),
                              !.jump = getRegimeAdjustments(samples).jump,
                              !.max = getRegimeAdjustments(samples).max]
    /\ UNCHANGED botVars

\* ------------------------------------------------------- StandXWebSocket
\* The client of src/src/api/standx-websocket.ts on its own: connect(),
\* disconnect(), the sockets' open and close events and the reconnect timers.
\* A socket is [stream, st, waiter]: waiter names the code whose promise the
\* socket's 'open' resolves ("connect", "reconnect" or "none").
Streams == {"market", "order"}

\* the fields after the constructor; pc is connect()'s position ("login"
\* while it awaits auth.login()), closedByUser records that disconnect() has
\* been called and connect() not since
WsInit ==
  [loggedIn |-> FALSE, isManualClose |-> FALSE, reconnectAttempts |-> 0,
   marketWS |-> 0, orderWS |-> 0, sockets |-> <<>>,
   timers |-> [s \in Streams |-> 0], pc |-> "idle", closedByUser |-> FALSE]

\* new WebSocket(url) in connectMarketStream / connectOrderStream
NewSocket(w, stream, waiter) ==
  LET w1 == [w EXCEPT !.sockets = Append(@, [stream |-> stream,
                                              st |-> "CONNECTING",
                                              waiter |-> waiter])]
  IN IF stream = "market" THEN [w1 EXCEPT !.marketWS = Len(w1.sockets)]
     ELSE [w1 EXCEPT !.orderWS = Len(w1.sockets)]

AttemptNote(stream) == [e |-> "wsAttempt", stream |-> stream]

\* the test at the head of the setTimeout callback
timerReturns(w) == w.isManualClose

\* scheduleReconnect up to setTimeout
scheduleReconnect(w, stream) ==
  IF w.reconnectAttempts >= maxReconnectAttempts THEN w
  ELSE [w EXCEPT !.reconnectAttempts = @ + 1, !.timers[stream] = @ + 1]

ScheduleNote(w, stream) ==
  IF w.reconnectAttempts >= maxReconnectAttempts
  THEN [e |-> "wsEmit", ev |-> "max_reconnect_reached"]
  ELSE [e |-> "wsEmit", ev |-> "reconnecting"]

\* ws.close() of disconnect(): a socket that is connecting or open starts
\* closing, its close event comes later
closeSocket(sockets, i) ==
  IF i = 0 THEN sockets
  ELSE IF sockets[i].st \in {"CONNECTING", "OPEN"}
  THEN [sockets EXCEPT ![i].st = "CLOSING"]
  ELSE sockets

\* every variable but ws and log
wsFrame == <<now, mode, isRunning, stopRequested, markPrice, position,
             buyOrder, sellOrder, lastReplaceAt, spreadSamples,
             spreadGuardTimer, spreadGuardCooldownUntil, lastPositionCheckAt,
             wsOn, started, orders, venuePos, posEv, tasks, fills, fails,
             reconnects, lastPollAt, lastExecAt, marks, lim, calc>>

\* connect() called: login first when not logged in, else isManualClose =
\* false and the market stream's socket
WsConnect ==
  /\ ws.pc = "idle"
  /\ IF ~ws.loggedIn
     THEN /\ ws' = [ws EXCEPT !.pc = "login", !.closedByUser = FALSE]
          /\ log' = {[e |-> "wsConnect"]}
     ELSE /\ Len(ws.sockets) < MaxSockets
          /\ ws' = NewSocket([ws EXCEPT !.isManualClose = FALSE,
                                        !.closedByUser = FALSE],
                             "market", "connect")
          /\ log' = {[e |-> "wsConnect"], AttemptNote("market")}
  /\ UNCHANGED wsFrame

\* auth.login() answered: connect() goes on, or rejects
WsLogin ==
  /\ ws.pc = "login"
  /\ \/ /\ ws' = [ws EXCEPT !.pc = "idle"]
        /\ log' = {}
     \/ /\ Len(ws.sockets) < MaxSockets
        /\ ws' = NewSocket([ws EXCEPT !.pc = "idle", !.loggedIn = TRUE,
                                      !.isManualClose = FALSE],
                           "market", "connect")
        /\ log' = {AttemptNote("market")}
  /\ UNCHANGED wsFrame

\* a socket's 'open': reconnectAttempts = 0 on the market stream, the
\* promise resolves and its awaiter runs on
SocketOpen ==
  \E i \in 1..Len(ws.sockets) :
    LET sk == ws.sockets[i]
        w1 == [ws EXCEPT !.sockets[i].st = "OPEN",
                         !.sockets[i].waiter = "none",
                         !.reconnectAttempts =
                            IF sk.stream = "market" THEN 0 ELSE @]
    IN /\ sk.st = "CONNECTING"
       /\ IF sk.waiter = "connect" /\ sk.stream = "market"
          THEN /\ Len(ws.sockets) < MaxSockets
               /\ ws' = NewSocket(w1, "order", "connect")
               /\ log' = {AttemptNote("order")}
          ELSE IF sk.waiter = "reconnect"
          THEN /\ ws' = w1
               /\ log' = {[e |-> "wsEmit",
                           ev |-> IF sk.stream = "market"
                                  THEN "market_reconnected"
                                  ELSE "order_reconnected"]}
          ELSE /\ ws' = w1
               /\ log' = {}
       /\ UNCHANGED wsFrame

\* a socket's 'close' (failed handshake, lost connection, or the end of a
\* close()): scheduleReconnect unless isManualClose
SocketClose ==
  \E i \in 1..Len(ws.sockets) :
    LET sk == ws.sockets[i]
        w1 == [ws EXCEPT !.sockets[i].st = "CLOSED",
                         !.sockets[i].waiter = "none"]
    IN /\ sk.st \in {"CONNECTING", "OPEN", "CLOSING"}
       /\ IF ~ws.isManualClose
          THEN /\ ws' = scheduleReconnect(w1, sk.stream)
               /\ log' = {ScheduleNote(w1, sk.stream)}
          ELSE /\ ws' = w1
               /\ log' = {}
       /\ UNCHANGED wsFrame

\* the setTimeout callback of scheduleReconnect
ReconnectTimer ==
  \E stream \in Streams :
    LET w1 == [ws EXCEPT !.timers[stream] = @ - 1]
    IN /\ ws.timers[stream] > 0
       /\ IF timerReturns(ws)
          THEN /\ ws' = w1
               /\ log' = {}
          ELSE /\ Len(ws.sockets) < MaxSockets
               /\ ws' = NewSocket(w1, stream, "reconnect")
               /\ log' = {AttemptNote(stream)}
       /\ UNCHANGED wsFrame

\* disconnect()
WsDisconnect ==
  /\ ws' = [ws EXCEPT !.isManualClose = TRUE, !.closedByUser = TRUE,
                      !.sockets = closeSocket(closeSocket(@, ws.marketWS),
                                              ws.orderWS),
                      !.marketWS = 0, !.orderWS = 0]
  /\ log' = {[e |-> "wsDisconnect"]}
  /\ UNCHANGED wsFrame

\* the state after the constructor, with the run's limits l
Boot(l) ==
  /\ now = StartTime
  /\ mode \in Modes
  /\ isRunning = FALSE
  /\ stopRequested = FALSE
  /\ markPrice = 0
  /\ position = 0
  /\ buyOrder = NULL
  /\ sellOrder = NULL
  /\ lastReplaceAt = [s \in Sides |-> 0]
  /\ spreadSamples = <<>>
  /\ spreadGuardTimer = FALSE
  /\ spreadGuardCooldownUntil = 0
  /\ lastPositionCheckAt = 0
  /\ wsOn = FALSE
  /\ started = FALSE
  /\ orders = <<>>
  /\ venuePos = 0
  /\ posEv = <<>>
  /\ tasks = EmptyBag
  /\ fills = 0
  /\ fails = 0
  /\ reconnects = 0
  /\ lastPollAt = 0
  /\ lastExecAt = [s \in Sides |-> -1]
  /\ marks = 0
  /\ lim = l
  /\ calc = NoCall
  /\ ws = WsInit
  /\ log = {}

Init == Boot([time |-> MaxTime, marks |-> MaxMarks, orders |-> MaxOrders])

\* a resting quote as the venue holds it
Resting(side, price) ==
  [side |-> side, price |-> price, qty |-> 1, st |-> "OPEN", ro |-> FALSE,
   after |-> 0, at |-> 0, ev |-> FALSE, out |-> FALSE]

\* the bot quoting around mark price m, with the spread samples of earlier
\* polls: both quotes resting at orderDistanceBp, the spread guard timer
\* armed, no handler in flight
QuotingAt(l, m, samples) ==
  /\ now = StartTime
  /\ mode \in Modes
  /\ isRunning = TRUE
  /\ stopRequested = FALSE
  /\ markPrice = m
  /\ position = 0
  /\ buyOrder = [id |-> 1, status |-> "OPEN",
                 price |-> calculateOrderPrice("buy", m, OrderDistanceBp)]
  /\ sellOrder = [id |-> 2, status |-> "OPEN",
                  price |-> calculateOrderPrice("sell", m, OrderDistanceBp)]
  /\ lastReplaceAt = [s \in Sides |-> 0]
  /\ spreadSamples = samples
  /\ spreadGuardTimer = TRUE
  /\ spreadGuardCooldownUntil = 0
  /\ lastPositionCheckAt = 0
  /\ wsOn = TRUE
  /\ started = TRUE
  /\ orders = <<Resting("buy", buyOrder.price),
                Resting("sell", sellOrder.price)>>
  /\ venuePos = 0
  /\ posEv = <<>>
  /\ tasks = EmptyBag
  /\ fills = 0
  /\ fails = 0
  /\ reconnects = 0
  /\ lastPollAt = 0
  /\ lastExecAt = [s \in Sides |-> -1]
  /\ marks = 1
  /\ lim = l
  /\ calc = NoCall
  /\ ws = WsInit
  /\ log = {}

\* the state after start() returned without a failure: one mark price seen,
\* both quotes resting at orderDistanceBp, the spread guard timer armed
Quoting(l) == \E m \in MarkPrices : QuotingAt(l, m, <<>>)

\* the bot quoting after some polls: any recent spread history, the mark
\* price level with, near or away from the reference market's mid
Watching(l) ==
  \E m \in WatchMarks, samples \in SpreadHistories : QuotingAt(l, m, samples)

Next ==
  \/ Start
  \/ StConnect
  \/ StWait
  \/ StPos
  \/ CaQuery
  \/ CaCancel
  \/ PioPlace
  \/ RoCancel
  \/ RoPlace
  \/ CpPlace
  \/ CdpSleep
  \/ PosRead
  \/ Poll
  \/ SgFetch
  \/ MarkPriceEvent
  \/ OrderEvent
  \/ PositionEvent
  \/ ReconnectEvent
  \/ VenueFill
  \/ Tick

Spec == Init /\ [][Next]_vars

\* quoting only: price ticks, replaces and restores, failing venue calls
NextQuote ==
  \/ Start
  \/ StConnect
  \/ StWait
  \/ StPos
  \/ CaQuery
  \/ CaCancel
  \/ PioPlace
  \/ RoCancel
  \/ RoPlace
  \/ PosRead
  \/ MarkPriceEvent
  \/ OrderEvent
  \/ Tick

SpecQuote == Init /\ [][NextQuote]_vars

\* quoting with one more price tick, for handlers that overlap
SpecRace ==
  Boot([time |-> MaxTime, marks |-> RaceMarks, orders |-> MaxOrders])
    /\ [][NextQuote]_vars

\* fills and flattening from the quoting state: quote fills, order and
\* position events, closing orders
NextFill ==
  \/ CaQuery
  \/ CaCancel
  \/ PioPlace
  \/ RoCancel
  \/ RoPlace
  \/ CpPlace
  \/ CdpSleep
  \/ PosRead
  \/ MarkPriceEvent
  \/ OrderEvent
  \/ PositionEvent
  \/ VenueFill
  \/ Tick

SpecFill ==
  Quoting([time |-> FillTime, marks |-> FillMarks, orders |-> MaxOrders])
    /\ [][NextFill]_vars

\* flattening alone, with room for the quotes that follow it: no further
\* price tick
NextFlat ==
  \/ CaQuery
  \/ CaCancel
  \/ PioPlace
  \/ RoCancel
  \/ RoPlace
  \/ CpPlace
  \/ CdpSleep
  \/ OrderEvent
  \/ PositionEvent
  \/ VenueFill
  \/ Tick

SpecFlat ==
  Quoting([time |-> FillTime, marks |-> 1, orders |-> FlatOrders])
    /\ [][NextFlat]_vars

\* the timer and a fill while the price and order streams are silent: polls
\* of the reference market, position events (delivered or left pending),
\* flattening of a detected position
NextTimer ==
  \/ CaQuery
  \/ CaCancel
  \/ PioPlace
  \/ CpPlace
  \/ CdpSleep
  \/ Poll
  \/ SgFetch
  \/ PositionEvent
  \/ VenueFill
  \/ Tick

SpecTimer ==
  Quoting([time |-> MaxTime, marks |-> 1, orders |-> MaxOrders])
    /\ [][NextTimer]_vars

\* the polls alone, from any spread history: fetch, evaluation, cancel-all
\* of a firing guard, cooldown
NextPoll ==
  \/ CaQuery
  \/ CaCancel
  \/ Poll
  \/ SgFetch
  \/ Tick

SpecPoll ==
  Watching([time |-> MaxTime, marks |-> 1, orders |-> MaxOrders])
    /\ [][NextPoll]_vars

\* the spread guard from the quoting state: polls of the reference market,
\* cooldown, reconnects
NextGuard ==
  \/ CaQuery
  \/ CaCancel
  \/ PioPlace
  \/ RoCancel
  \/ RoPlace
  \/ PosRead
  \/ Poll
  \/ SgFetch
  \/ MarkPriceEvent
  \/ OrderEvent
  \/ ReconnectEvent
  \/ Tick

SpecGuard ==
  Quoting([time |-> MaxTime, marks |-> GuardMarks, orders |-> MaxOrders])
    /\ [][NextGuard]_vars

\* reconnects from the quoting state, with room for the fresh quotes: price
\* ticks, replaces, restores, market_reconnected
NextReconnect ==
  \/ CaQuery
  \/ CaCancel
  \/ PioPlace
  \/ RoCancel
  \/ RoPlace
  \/ PosRead
  \/ MarkPriceEvent
  \/ OrderEvent
  \/ ReconnectEvent
  \/ Tick

SpecReconnect ==
  Quoting([time |-> FillTime, marks |-> FillMarks, orders |-> ReconnectOrders])
    /\ [][NextReconnect]_vars

\* quoting without end while the order stream is silent (no slot loses its
\* OPEN status, so no restore): price ticks keep arriving, every handler in
\* flight is continued, time passes up to the last clock value
NextLive ==
  \/ RoCancel
  \/ RoPlace
  \/ PosRead
  \/ MarkPriceEvent
  \/ Tick

\* the venue calls of the handlers in flight are answered
Answer ==
  \/ RoCancel
  \/ RoPlace
  \/ PosRead

\* ENABLED <<Answer>>_vars: some handler awaits a venue call
HandlerAwaited ==
  \E t \in BagToSet(tasks) :
    t.pc \in {"ro_cancel", "ro_place", "pos_read"}

\* ENABLED <<MarkPriceEvent>>_vars: a mark_price event can be delivered and
\* its handler changes something
TickDeliverable ==
  /\ wsOn
  /\ lim.marks = 0 \/ marks < lim.marks
  /\ \E p \in StreamPrices :
       LET c1 == handleMarkPriceUpdate(Ctx(Bot, NewTask("tick")), p)
       IN /\ c1.t.pc = "done" \/ BagCardinality(tasks) < MaxTasks
          /\ \/ c1.t.pc # "done"
             \/ c1.b # Bot
             \/ c1.log # log
             \/ lim.marks # 0
             \/ \E i \in 1..Len(orders) :
                  /\ orders[i].st = "OPEN"
                  /\ ~orders[i].out
                  /\ zoneOf(p, orders[i].price) \in {"tooClose", "tooFar"}

\* the event loop runs every continuation that is ready (weak fairness of
\* Answer), the stream keeps delivering mark_price events (strong fairness
\* of MarkPriceEvent) and time passes (strong fairness of Tick).  The first
\* two are written out with their enabling conditions.
SpecLive ==
  /\ Quoting([time |-> MaxTime, marks |-> 0, orders |-> MaxOrders])
  /\ [][NextLive]_vars
  /\ SF_vars(Tick)
  /\ ([]<>(~HandlerAwaited) \/ []<><<Answer>>_vars)
  /\ (<>[](~TickDeliverable) \/ []<><<MarkPriceEvent>>_vars)

\* the state after start() returned without a failure in a one-sided trading
\* mode: the quote of the mode's side resting at orderDistanceBp, the other
\* slot null, the spread guard timer armed, no handler in flight
OneSided(l) ==
  \E md \in {"buy", "sell"}, m \in MarkPrices :
    /\ now = StartTime
    /\ mode = md
    /\ isRunning = TRUE
    /\ stopRequested = FALSE
    /\ markPrice = m
    /\ position = 0
    /\ buyOrder = IF md = "buy"
                  THEN [id |-> 1, status |-> "OPEN",
                        price |-> calculateOrderPrice("buy", m, OrderDistanceBp)]
                  ELSE NULL
    /\ sellOrder = IF md = "sell"
                   THEN [id |-> 1, status |-> "OPEN",
                         price |-> calculateOrderPrice("sell", m, OrderDistanceBp)]
                   ELSE NULL
    /\ lastReplaceAt = [s \in Sides |-> 0]
    /\ spreadSamples = <<>>
    /\ spreadGuardTimer = TRUE
    /\ spreadGuardCooldownUntil = 0
    /\ lastPositionCheckAt = 0
    /\ wsOn = TRUE
    /\ started = TRUE
    /\ orders = <<Resting(md, calculateOrderPrice(md, m, OrderDistanceBp))>>
    /\ venuePos = 0
    /\ posEv = <<>>
    /\ tasks = EmptyBag
    /\ fills = 0
    /\ fails = 0
    /\ reconnects = 0
    /\ lastPollAt = 0
    /\ lastExecAt = [s \in Sides |-> -1]
    /\ marks = 1
    /\ lim = l
    /\ calc = NoCall
    /\ ws = WsInit
    /\ log = {}

\* the two runs of a one-sided mode: fills and flattens with their price
\* ticks, or the spread guard and reconnects with theirs
OneSideRuns ==
  {[time |-> FillTime, marks |-> FillMarks, orders |-> MaxOrders,
    run |-> "fills"],
   [time |-> MaxTime, marks |-> GuardMarks, orders |-> MaxOrders,
    run |-> "guard"]}

\* a one-sided mode from the quoting state: price ticks, replaces and
\* restores in both runs; quote fills, order and position events and closing
\* orders in one, polls of the reference market and reconnects in the other
NextOneSide ==
  \/ CaQuery
  \/ CaCancel
  \/ PioPlace
  \/ RoCancel
  \/ RoPlace
  \/ PosRead
  \/ MarkPriceEvent
  \/ Tick
  \/ lim.run = "fills" /\ CpPlace
  \/ lim.run = "fills" /\ CdpSleep
  \/ lim.run = "fills" /\ OrderEvent
  \/ lim.run = "fills" /\ PositionEvent
  \/ lim.run = "fills" /\ VenueFill
  \/ lim.run = "guard" /\ Poll
  \/ lim.run = "guard" /\ SgFetch
  \/ lim.run = "guard" /\ ReconnectEvent

SpecOneSide ==
  (\E l \in OneSideRuns : OneSided(l)) /\ [][NextOneSide]_vars


\* the WebSocket client alone
NextSocket ==
  \/ WsConnect
  \/ WsLogin
  \/ SocketOpen
  \/ SocketClose
  \/ ReconnectTimer
  \/ WsDisconnect

SpecSocket ==
  Boot([time |-> MaxTime, marks |-> MaxMarks, orders |-> MaxOrders])
    /\ [][NextSocket]_vars

\* the pure functions on their own, over RefPrices and SampleLists
NextCalc ==
  \/ CalcPrice
  \/ CalcQuantile
  \/ CalcDynamicMax
  \/ CalcRegime

SpecCalc ==
  Boot([time |-> MaxTime, marks |-> MaxMarks, orders |-> MaxOrders])
    /\ [][NextCalc]_vars

\* =================================================================== claims
QuoteIds(side) ==
  {i \in 1..Len(orders) :
     orders[i].side = side /\ ~orders[i].ro /\ orders[i].st = "OPEN"}

\* C1: in every reachable state each side has at most one live (open) quoting
\* order of the bot on the venue.
C1_OneLiveQuotePerSide == \A side \in Sides : Cardinality(QuoteIds(side)) <= 1

\* the handlers of a FILLED update of a quote on the given side that are
\* still awaiting their closing order
FillHandlers(side) ==
  {t \in BagToSet(tasks) :
     InStack(t, {"hof_1"}) /\ t.fside = side /\ ~orders[t.oid].ro}

\* C2: no quoting order is placed on a side while the handler of a fill on
\* that side has not yet closed the position and reset it to zero.
C2_NoQuoteBeforeFlatten ==
  \A e \in log : e.e = "place" => FillHandlers(e.side) = {}

\* stop() has run to its end: flags set, WebSocket disconnected, spread-guard
\* timer cleared
Halted == stopRequested /\ ~isRunning /\ ~wsOn /\ ~spreadGuardTimer

\* C3: a failed flatten runs stop() (stopRequested set, isRunning cleared),
\* and once stop() has finished the bot places no further quoting order.
C3_HaltedAfterFailedFlatten ==
  /\ \A e \in log : e.e = "flattenFailed" => stopRequested /\ ~isRunning
  /\ \A e \in log : e.e = "place" => ~Halted

\* C4: at most one flatten operation (cancel + closing order) is in flight
\* at any time.
C4_SingleFlatten ==
  \A t \in BagToSet(tasks) :
    InFlatten(t) =>
      /\ CopiesIn(t, tasks) = 1
      /\ \A u \in BagToSet(tasks) : InFlatten(u) => u = t

\* C5: on each side, a replace that gets past the throttle starts at least
\* minReplaceIntervalMs after the previous executed replace of that side.
C5_ReplacesThrottled ==
  \A e \in log : e.e = "exec" => (e.gap < 0 \/ e.gap >= MinReplaceIntervalMs)

\* C6: the replace and restore logic cancels an order only after some tick
\* has put its distance outside [min - d, max + d].
C6_InZoneOrderKept ==
  \A e \in log :
    (e.e = "cancel" /\ e.path \in {"replace", "restore"}) => e.out

C8_NoQuoteWhileSuspended ==
  \A e \in log : e.e = "place" => ~(now < spreadGuardCooldownUntil)

\* C9: when the poll handler that fired completes, a cancel has been issued
\* for every open order, both slots are null and the deadline is the fire
\* time plus cooldownMs.
C9_FireCancelsEverything ==
  \A e \in log :
    e.e = "guardDone" =>
      /\ OpenIds \subseteq e.issued
      /\ buyOrder = NULL
      /\ sellOrder = NULL
      /\ spreadGuardCooldownUntil = e.fired + CooldownMs

\* C10: on a run of 2 bp samples (no wider sample seen yet) the guard does
\* not fire.
C10_ActiveOnSteadySpread ==
  (/\ Len(spreadSamples) < maxSamples
   /\ \A i \in 1..Len(spreadSamples) : spreadSamples[i] = 2)
    => \A e \in log : e.e # "fire"

\* C11: a poll that runs after the cooldown deadline has passed does not
\* return idle while a side the mode requires has an empty slot (the poll
\* itself starts the fresh placement).
C11_PollRequotes ==
  \A e \in log :
    e.e = "pollIdle" => ~(e.resumed /\ e.running /\ e.unquoted # {})

\* C12: when the fill handler has closed the position and placed its new
\* quote, the recorded position is 0 and every side the mode requires holds
\* an order placed after the fill (its 'after' is the number of fills so far).
C12_BothSidesRequoted ==
  \A e \in log :
    (e.e = "place" /\ e.path = "fill") =>
      /\ position = 0
      /\ \A side \in Sides :
           mode \in {"both", side} =>
             /\ SlotOf(Bot, side) # NULL
             /\ orders[SlotOf(Bot, side).id].after = fills

\* C13: a FILLED order event starts the fill handling (position change,
\* closing order) only for the order held in the buy or sell slot.
C13_OnlySlotFillsFlatten == \A e \in log : e.e = "filled" => e.held

\* C14: a position event or reconciliation read that reports a nonzero
\* position while no flatten is in flight starts a flatten, whatever the
\* recorded position was.
C14_NonzeroReadingFlattens ==
  \A e \in log :
    (e.e = "reading" /\ Abs(e.pos) >= 1 /\ ~e.busy) => e.flatten

\* the task is between the cancel request and the placement answer of
\* replaceOrder for the given side
InReplace(t, side) == t.pc \in {"ro_cancel", "ro_place"} /\ t.side = side

\* C15: for each side at most one replace (cancel then place) is in progress.
C15_OneReplacePerSide ==
  \A side \in Sides :
    \A t \in BagToSet(tasks) :
      InReplace(t, side) =>
        /\ CopiesIn(t, tasks) = 1
        /\ \A u \in BagToSet(tasks) : InReplace(u, side) => u = t

\* C16: while a flatten is in flight no distance evaluation, replace or
\* restore placement is performed.
C16_FlattenSuppressesLifecycle ==
  \A e \in log :
    (\/ e.e \in {"eval", "exec"}
     \/ (e.e = "place" /\ e.path \in {"restore", "replace"}))
      => \A t \in BagToSet(tasks) : ~InFlatten(t)

\* C17: a slot that is not null holds an order the bot knows as OPEN and has
\* not cancelled: a dead order (FILLED, CANCELED, FAILED, or cancelled by a
\* replace that has not placed yet) is not kept in the slot.
C17_SlotNullWhenDead ==
  \A side \in Sides :
    SlotOf(Bot, side) # NULL =>
      /\ SlotOf(Bot, side).status = "OPEN"
      /\ \A t \in BagToSet(tasks) :
           (t.pc = "ro_place" /\ t.side = side)
             => orders[SlotOf(Bot, side).id].st # "CANCELED"

\* C18: after a failed placement of a replace or an initial / restore quote
\* the side's slot is null and the bot keeps running.
C18_FailedPlacementEmptiesSlot ==
  \A e \in log :
    (e.e = "placeFailed" /\ e.path \in {"replace", "restore", "start"}) =>
      /\ SlotOf(Bot, e.side) = NULL
      /\ isRunning
      /\ ~stopRequested

\* C19 as stated: the distance of the computed price, measured as the
\* evaluation measures it (|ref - price| / price * 10000), differs from the
\* target distance by at most one tick's bp equivalent (10000 / price).
C19_WithinOneTickOfTarget ==
  calc.fn = "price" =>
    Abs(Abs(calc.ref - calc.out) * 10000 - OrderDistanceBp * calc.out)
      <= 10000

\* C19 amended: the computed price is within half a tick of
\* ref * (1 -/+ d / 10000), i.e. its distance measured against the reference
\* price (|ref - price| / ref * 10000) differs from the target distance by
\* at most half a tick's bp equivalent (5000 / ref); it is below ref for buy
\* and above for sell once the offset ref * d / 10000 exceeds half a tick.
C19_WithinHalfTickOfRefDistance ==
  calc.fn = "price" =>
    /\ Abs(Abs(calc.ref - calc.out) * 10000 - OrderDistanceBp * calc.ref)
         <= 5000
    /\ calc.ref * OrderDistanceBp > 5000 =>
         ((calc.side = "buy") <=> (calc.out < calc.ref))

\* C19 witness: a price was computed at the instrument's scale and the
\* rounding moved it
C19_RoundedPriceComputed ==
  /\ calc.fn = "price"
  /\ calc.ref >= RefBase
  /\ (calc.ref * OrderDistanceBp) % 10000 # 0

\* the k-th smallest value of s, by counting
OrderStat(s, k) ==
  CHOOSE v \in {s[i] : i \in 1..Len(s)} :
    /\ Cardinality({i \in 1..Len(s) : s[i] < v}) < k
    /\ Cardinality({i \in 1..Len(s) : s[i] <= v}) >= k

\* linear interpolation between the order statistics around rank
\* (n - 1) * q, times 100 (q in percent)
InterpolatedX100(s, q) ==
  LET n == Len(s)
      pos == (n - 1) * q
      lo == pos \div 100
      w == pos % 100
      hi == IF lo + 2 > n THEN n ELSE lo + 2
  IN OrderStat(s, lo + 1) * (100 - w) + OrderStat(s, hi) * w

\* C20: calculateSpreadQuantile returns the linear interpolation between the
\* order statistics at rank (n - 1) * q, whatever the order of the samples;
\* on [1,2,3,4,5] it is 3 at q = 0.5 and 4.6 at q = 0.9.
C20_QuantileInterpolates ==
  /\ calc.fn = "quantile" => calc.out = InterpolatedX100(calc.samples, calc.q)
  /\ calculateSpreadQuantileX100(<<1, 2, 3, 4, 5>>, 50) = 300
  /\ calculateSpreadQuantileX100(<<1, 2, 3, 4, 5>>, 90) = 460
  /\ calculateSpreadQuantileX100(<<5, 3, 1, 4, 2>>, 90) = 460

\* C20 witness: the quantile of an unsorted list fell between two different
\* order statistics
C20_InterpolatedUnsorted ==
  /\ calc.fn = "quantile"
  /\ calc.samples # SortAsc(calc.samples)
  /\ ((Len(calc.samples) - 1) * calc.q) % 100 # 0
  /\ calc.out % 100 # 0

\* C21: when the handler of a market_reconnected event has finished, every
\* order that was open at the event is no longer open, and each side the
\* mode requires has exactly one open quote, placed after the event at
\* orderDistanceBp from a mark price (the mark price may move while the
\* handler runs).
C21_ReconnectRequotesFromScratch ==
  \A e \in log :
    e.e = "reconnectDone" =>
      /\ \A i \in e.snap : orders[i].st # "OPEN"
      /\ \A side \in Sides :
           mode \in {"both", side} =>
             \E i \in 1..Len(orders) :
               /\ QuoteIds(side) = {i}
               /\ i \notin e.snap
               /\ \E m \in MarkPrices :
                    orders[i].price
                      = calculateOrderPrice(side, m, OrderDistanceBp)

\* C22: whenever a flatten (by fill event or by detected position) issues its
\* closing order, its handler has before that requested a cancel for every
\* order then open on the venue.
C22_CancelsBeforeClosing ==
  \A e \in log : e.e = "closeReq" => e.open \subseteq e.issued

\* C23: every closing order is on the side opposite to the venue's net
\* position and sized to its absolute value (the position is not zero), and
\* once the venue has taken the order the venue position is zero.  (Every
\* closing order of the model is reduce-only, as in closePosition.)
C23_ClosingOrderOffsetsPosition ==
  \A e \in log :
    e.e = "close" =>
      /\ e.pos # 0
      /\ e.qty = Abs(e.pos)
      /\ e.side = (IF e.pos > 0 THEN "sell" ELSE "buy")
      /\ e.ok => venuePos = 0

\* C24: closePosition reports success only for a closing order the venue
\* has filled in full; an order the venue has only accepted is not reported
\* as closed.
C24_ClosedOnlyWhenFilled ==
  \A e \in log : (e.e = "close" /\ e.ok) => e.filled = e.qty

\* the reduce-only limit orders (closing orders at a price) the venue has
\* seen
LimitCloseIds == {i \in 1..Len(orders) : orders[i].ro /\ orders[i].price # 0}

\* C25: with closePositionMode = limit, a market closing order is sent only
\* after a limit closing order of the same flatten has been placed, has
\* ended unfilled and has had its cancel issued.
C25_MarketOnlyAfterLimit ==
  \A e \in log :
    (e.e = "close" /\ ClosePositionMode = "limit") =>
      \E i \in LimitCloseIds : orders[i].st \in {"CANCELED", "OPEN"}

\* a quote was filled at least PositionCheckIntervalMs ago
FilledLongAgo ==
  \E i \in 1..Len(orders) :
    /\ orders[i].st = "FILLED"
    /\ ~orders[i].ro
    /\ now - orders[i].at >= PositionCheckIntervalMs

\* C26: a timer poll of the running bot does not end (idle or firing the
\* guard) while the venue position has been nonzero for
\* PositionCheckIntervalMs, the last position check is that old as well and
\* no flatten is in flight (the timer itself reads the position and starts
\* the flatten).
C26_TimerReconcilesPosition ==
  \A e \in log :
    (/\ e.e \in {"pollIdle", "fire"}
     /\ isRunning /\ ~stopRequested
     /\ venuePos # 0
     /\ FilledLongAgo
     /\ now - lastPositionCheckAt >= PositionCheckIntervalMs)
      => \E t \in BagToSet(tasks) : InFlatten(t)

\* the basis-diff multiplier of the run (1.2), as the operator configures it
BasisDiffGuardMultiplierX10 == 12

\* the anomaly conditions on the sample buffer that holds spreadBp as its
\* last sample: spreadBp - baseline >= jumpThreshold * multipliers, or
\* spreadBp >= maxThreshold * multipliers (extraX10: the basis-diff
\* multiplier in force, 10 for none)
AnomalyExpected(samples, extraX10) ==
  LET spreadBp == samples[Len(samples)]
      first == Max2(1, Len(samples) - LookbackSamples + 1)
      n == Len(samples) - first + 1
      sum == SeqSum(SubSeq(samples, first, Len(samples)))
      adj == getRegimeAdjustments(samples)
  IN \/ (spreadBp * n - sum) * 100 >= JumpSpreadBp * adj.jump * extraX10 * n
     \/ spreadBp * 10000
          >= calculateDynamicMaxSpreadX100(samples) * adj.max * extraX10

Fired == \E e \in log : e.e = "fire"

\* C27: a poll outside cooldown with valid bid and ask fires iff one of the
\* two anomaly conditions holds, with the regime multiplier and (when the
\* basis diff is at or above its threshold) the basis-diff multiplier on the
\* thresholds; a poll with an invalid bid or ask does not fire and leaves
\* the sample buffer as it was.
C27_FiresIffAnomalous ==
  \A e \in log :
    e.e = "poll" =>
      /\ (e.valid /\ ~e.cooling) =>
           (Fired <=> AnomalyExpected(spreadSamples,
                        IF e.basis THEN BasisDiffGuardMultiplierX10 ELSE 10))
      /\ ~e.valid => (~Fired /\ spreadSamples = e.before)

\* the last k samples
LastSamples(samples, k) ==
  SubSeq(samples, Max2(1, Len(samples) - k + 1), Len(samples))

\* C28: the dynamic max threshold is the configured absolute max spread when
\* the buffer holds no sample or a single sample, and the configured
\* quantile of the most recent quantileSamples otherwise (values times 100).
C28_DynamicMaxFallsBack ==
  calc.fn = "dynamicMax" =>
    IF Len(calc.samples) <= 1
    THEN calc.out = MaxSpreadBp * 100
    ELSE calc.out = InterpolatedX100(LastSamples(calc.samples, QuantileSamples),
                                     MaxQuantilePct)

\* n^2 times the sum of the squared deviations from the mean
SqDevN2(s) ==
  LET n == Len(s)
      total == SeqSum(s)
  IN SeqSum([i \in 1..n |-> (n * s[i] - total) * (n * s[i] - total)])

\* the standard deviation sqrt(sum((x - mean)^2) / n) of the volatility
\* window against a threshold; 0 with fewer than two samples
VolAtLeast(s, thr) ==
  LET w == LastSamples(s, VolLookbackSamples)
  IN IF Len(w) < 2 THEN 0 >= thr
     ELSE SqDevN2(w) >= thr * thr * Len(w) * Len(w) * Len(w)

VolAtMost(s, thr) ==
  LET w == LastSamples(s, VolLookbackSamples)
  IN IF Len(w) < 2 THEN 0 <= thr
     ELSE SqDevN2(w) <= thr * thr * Len(w) * Len(w) * Len(w)

\* C29: the regime is high if the volatility is >= the high threshold,
\* otherwise low if it is <= the low threshold, otherwise normal; the
\* multipliers of jump and max threshold are the high-vol pair, the low-vol
\* pair or 1; with fewer than two samples the volatility counts as 0.
C29_RegimeByVolatility ==
  calc.fn = "regime" =>
    /\ calc.regime = (IF VolAtLeast(calc.samples, VolHighThresholdBp)
                      THEN "high"
                      ELSE IF VolAtMost(calc.samples, VolLowThresholdBp)
                      THEN "low" ELSE "normal")
    /\ calc.regime = "high" =>
         /\ calc.jump = HighVolJumpMultiplierX10
         /\ calc.max = HighVolMaxMultiplierX10
    /\ calc.regime = "low" =>
         /\ calc.jump = LowVolJumpMultiplierX10
         /\ calc.max = LowVolMaxMultiplierX10
    /\ calc.regime = "normal" => (calc.jump = 10 /\ calc.max = 10)
    /\ Len(calc.samples) < 2 =>
         calc.regime = (IF 0 >= VolHighThresholdBp THEN "high"
                        ELSE IF 0 <= VolLowThresholdBp THEN "low"
                        ELSE "normal")

\* C29 witness: the regime of a buffer whose volatility is exactly the high
\* threshold was determined
C29_RegimeAtHighThreshold ==
  /\ calc.fn = "regime"
  /\ Len(calc.samples) >= 2
  /\ SqDevN2(calc.samples)
       = VolHighThresholdBp * VolHighThresholdBp
           * Len(calc.samples) * Len(calc.samples) * Len(calc.samples)
  /\ calc.regime = "high"

\* the poll reached the anomaly conditions: it fired or returned idle
Evaluated == \E e \in log : e.e \in {"fire", "pollIdle"}

\* C30: a poll (valid bid and ask, outside cooldown) whose basis diff is at
\* or above the threshold still reaches the anomaly conditions and fires iff
\* they hold with the basis-diff multiplier on both thresholds; a poll whose
\* basis diff is below the threshold decides with the extra multiplier 1.
C30_BasisDiffSoftens ==
  \A e \in log :
    (e.e = "poll" /\ e.valid /\ ~e.cooling) =>
      IF e.basis
      THEN /\ Evaluated
           /\ Fired <=> AnomalyExpected(spreadSamples,
                                        BasisDiffGuardMultiplierX10)
      ELSE Fired <=> AnomalyExpected(spreadSamples, 10)

\* the spreads a poll with a valid bid and ask can measure
PolledSpreads == {spreadBpOf(b[1], b[2]) : b \in {x \in Bbos : x[1] > 0 /\ x[2] > 0}}

\* C31: the sample buffer never holds more than maxSamples samples; a poll
\* with a valid bid and ask appends its sample at the end, and when the buffer
\* was full the oldest sample, and only that one, is gone: the others keep
\* their order.
C31_BufferRolls ==
  /\ Len(spreadSamples) <= maxSamples
  /\ \A e \in log :
       (e.e = "poll" /\ e.valid) =>
         \E x \in PolledSpreads :
           spreadSamples
             = (IF Len(e.before) = maxSamples
                THEN SubSeq(e.before, 2, maxSamples) ELSE e.before) \o <<x>>

\* C31 witness: a poll appended to a full buffer whose samples differ, and
\* the oldest one was evicted
C31_FullBufferEvicted ==
  \E e \in log :
    /\ e.e = "poll"
    /\ e.valid
    /\ Len(e.before) = maxSamples
    /\ e.before[1] # e.before[2]
    /\ e.before[2] # e.before[3]
    /\ Len(spreadSamples) = maxSamples
    /\ spreadSamples[1] = e.before[2]
    /\ spreadSamples[2] = e.before[3]

\* C32: a replace whose cancel has been answered, with success or failure,
\* goes on to the placement, with the new price at orderDistanceBp from the
\* mark price current at that moment; when the placement is answered the
\* side's last-replace timestamp is the replace's start time and, the order
\* placed, the slot holds the new order.
C32_ReplacePricesFromCurrentMark ==
  /\ \A e \in log :
       e.e = "reprice" =>
         /\ e.px = calculateOrderPrice(e.side, markPrice, OrderDistanceBp)
         /\ \E t \in BagToSet(tasks) :
              t.pc = "ro_place" /\ t.side = e.side /\ t.px = e.px
  /\ \A e \in log :
       e.e = "replaced" =>
         /\ lastReplaceAt[e.side] = e.at
         /\ e.id # 0 =>
              SlotOf(Bot, e.side)
                = [id |-> e.id, price |-> e.px, status |-> "OPEN"]

\* C32 witness: the cancel of a replace failed, a tick had moved the mark
\* price while it was awaited, and the new price was computed
C32_RepricedAfterFailedCancel ==
  \E e \in log :
    /\ e.e = "reprice"
    /\ ~e.canceled
    /\ e.trigger # markPrice
    /\ e.px # calculateOrderPrice(e.side, e.trigger, OrderDistanceBp)

\* the side's slot holds an OPEN order outside [min - d, max + d]
OutOfBand(side) ==
  LET o == SlotOf(Bot, side)
  IN /\ o # NULL
     /\ o.status = "OPEN"
     /\ zoneOf(markPrice, o.price) \in {"tooClose", "tooFar"}

\* running, not suspended, flat
Quotable ==
  /\ isRunning
  /\ ~stopRequested
  /\ ~(now < spreadGuardCooldownUntil)
  /\ position = 0

ThrottledTrigger(side) == \E e \in log : e.e = "throttled" /\ e.side = side

Executed(side) == \E e \in log : e.e = "exec" /\ e.side = side

\* the step dropped a replace trigger of the side and left the side alone
DroppedWithoutEffect(side) ==
  ThrottledTrigger(side)' =>
    /\ lastReplaceAt'[side] = lastReplaceAt[side]
    /\ lastExecAt'[side] = lastExecAt[side]
    /\ (IF side = "buy" THEN buyOrder' = buyOrder ELSE sellOrder' = sellOrder)
    /\ Len(orders') >= Len(orders)
    /\ \A i \in 1..Len(orders') :
         orders'[i].side = side =>
           i <= Len(orders) /\ orders'[i].st = orders[i].st
    /\ \A t \in BagToSet(tasks') :
         (t.pc \in {"ro_cancel", "ro_place"} /\ t.side = side)
           => CopiesIn(t, tasks') = CopiesIn(t, tasks)

\* C33: a step that drops a throttled replace trigger of a side cancels and
\* places nothing on that side and leaves its slot, its last-replace
\* timestamp and its replace in flight as they were; and a throttled trigger
\* (with time left for the interval to pass) leads to a replace of the side
\* getting past the throttle, unless the order is no longer OPEN outside the
\* band or the bot is no longer running, not suspended and flat.
C33_ThrottledThenReplaced ==
  /\ [][\A side \in Sides : DroppedWithoutEffect(side)]_vars
  /\ \A side \in Sides :
       (ThrottledTrigger(side) /\ now < lim.time)
         ~> (Executed(side) \/ ~OutOfBand(side) \/ ~Quotable)

\* C33 witness: a trigger of a side was throttled while its OPEN order is
\* outside the band, the bot running, not suspended and flat, time left
C33_TriggerThrottled ==
  \E side \in Sides :
    /\ ThrottledTrigger(side)
    /\ OutOfBand(side)
    /\ Quotable
    /\ now < lim.time

\* 10000 times (the exact price ref * (1 -/+ d / 10000) minus the computed
\* price), in ticks
RawMinusOutX10000 ==
  10000 * (calc.ref - calc.out)
    + (IF calc.side = "sell" THEN calc.ref * OrderDistanceBp
       ELSE -(calc.ref * OrderDistanceBp))

\* C34: the computed price is the whole number of ticks nearest to
\* ref * (1 - d / 10000) for buy and ref * (1 + d / 10000) for sell, the
\* upper one when the exact price lies half-way between two ticks.
C34_NearestTickTiesUp ==
  calc.fn = "price" =>
    /\ -5000 <= RawMinusOutX10000
    /\ RawMinusOutX10000 < 5000

\* C34 witness: a buy price was computed whose exact value lies half-way
\* between two ticks, and the upper tick was taken
C34_TieRoundedUp ==
  /\ calc.fn = "price"
  /\ calc.side = "buy"
  /\ (calc.ref * OrderDistanceBp) % 10000 = 5000
  /\ RawMinusOutX10000 = -5000

\* C35: no quoting order is placed while state.isRunning is false: a replace
\* sends its new order, and the venue accepts a quoting order, only while
\* the bot is running.
C35_QuotesOnlyWhileRunning ==
  \A e \in log : e.e \in {"reprice", "place"} => isRunning

\* a constant positive series below the configured absolute max
ConstantSeries(samples) ==
  /\ Len(samples) > 0
  /\ samples[1] > 0 /\ samples[1] < MaxSpreadBp
  /\ \A i \in 1..Len(samples) : samples[i] = samples[1]

\* C36: with a positive high-vol threshold, a non-negative low-vol threshold
\* and a low-regime max multiplier below 1, every valid poll outside cooldown
\* whose sample leaves a constant positive series in the buffer fires the
\* guard, the first poll after start included.
C36_ConstantSeriesFires ==
  (VolHighThresholdBp > 0 /\ VolLowThresholdBp >= 0
     /\ LowVolMaxMultiplierX10 < 10) =>
    \A e \in log :
      (e.e = "poll" /\ e.valid /\ ~e.cooling /\ ConstantSeries(spreadSamples))
        => Fired

\* the step is a poll with valid bid and ask that ran while the cooldown was
\* in force and recorded a sample the anomaly conditions hold for
SuspendedAnomalousPoll ==
  /\ now < spreadGuardCooldownUntil
  /\ \E e \in log' : e.e = "poll" /\ e.valid
  /\ spreadAnomaly(spreadSamples', spreadSamples'[Len(spreadSamples')])

\* the cancel-all requests in flight
CancelAlls == {t \in BagToSet(tasks) : t.pc \in {"ca_query", "ca_cancel"}}

\* C37: a poll during the cooldown that observes an anomalous spread appends
\* its sample to the buffer and leaves the cooldown deadline, the order slots
\* and the orders as they were, without starting a cancel-all; the deadline
\* changes only when a fire completes, and every fire is decided by a poll
\* outside the cooldown.
C37_SuspendedPollOnlyRecords ==
  /\ [][SuspendedAnomalousPoll =>
          /\ \E x \in PolledSpreads :
               spreadSamples' = updateSpreadSamples(spreadSamples, x)
          /\ spreadGuardCooldownUntil' = spreadGuardCooldownUntil
          /\ buyOrder' = buyOrder /\ sellOrder' = sellOrder
          /\ orders' = orders
          /\ CancelAlls' \subseteq CancelAlls
          /\ \A e \in log' : e.e # "fire"]_vars
  /\ [][spreadGuardCooldownUntil' # spreadGuardCooldownUntil =>
          \E e \in log' : e.e = "guardDone"]_vars
  /\ [][(\E e \in log' : e.e = "fire") =>
          ~(now < spreadGuardCooldownUntil)]_vars

\* C37 witness: a poll during the cooldown has just recorded an anomalous
\* sample
C37_AnomalyWhileSuspended ==
  /\ now < spreadGuardCooldownUntil
  /\ \E e \in log : e.e = "poll" /\ e.valid /\ e.cooling /\ ~e.basis
  /\ Len(spreadSamples) > 0
  /\ spreadAnomaly(spreadSamples, spreadSamples[Len(spreadSamples)])

\* C38: in trading mode 'buy' the sell slot is null in every reachable state
\* and every sell order ever sent is reduce-only; in mode 'sell' the same
\* holds of the buy slot and buy orders.
C38_OtherSideNeverQuoted ==
  \A side \in Sides :
    mode = Opposite(side) =>
      /\ SlotOf(Bot, side) = NULL
      /\ \A i \in 1..Len(orders) : orders[i].side = side => orders[i].ro

\* C38 witness: in mode 'buy' the fill of a closing sell order has been
\* handled and closed by a buy order, and the handler has gone on to the
\* replace of the sell side
C38_SellFillHandledInBuyMode ==
  /\ mode = "buy"
  /\ sellOrder = NULL
  /\ \E e \in log : e.e = "close" /\ e.path = "fill" /\ e.ok /\ e.side = "buy"

\* the target distance lies between the configured min and max distance
TargetWithinMinMax ==
  MinDistanceBp <= OrderDistanceBp /\ OrderDistanceBp <= MaxDistanceBp

\* half a tick is no more than the room between the target distance and the
\* nearer of min and max, at reference price ref (in ticks):
\* 1/2 <= ref * room / 10000
HalfTickWithinRoom(ref) ==
  5000 <= ref * (IF OrderDistanceBp - MinDistanceBp
                      < MaxDistanceBp - OrderDistanceBp
                   THEN OrderDistanceBp - MinDistanceBp
                   ELSE MaxDistanceBp - OrderDistanceBp)

\* C39, as stated: with min <= target distance <= max, the price computed at
\* reference price p for an initial quote or a replace is inside
\* [min - d, max + d] when evaluated at the same p, for every p.
C39_FreshQuoteInsideBand ==
  (TargetWithinMinMax /\ calc.fn = "price") =>
    zoneOf(calc.ref, calc.out) \notin {"tooClose", "tooFar"}

\* C39, amended: the same for every reference price at which half a tick is
\* no more than the room between the target distance and min and max.
C39_FreshQuoteInsideBandAboveHalfTick ==
  (TargetWithinMinMax /\ calc.fn = "price" /\ HalfTickWithinRoom(calc.ref)) =>
    zoneOf(calc.ref, calc.out) \notin {"tooClose", "tooFar"}

\* C39 witness: a price computed at 150.0, where the offset ends in half a
\* tick, evaluated at 150.0
C39_CoarseTickEvaluated ==
  /\ TargetWithinMinMax
  /\ calc.fn = "price"
  /\ calc.ref = 1500
  /\ HalfTickWithinRoom(calc.ref)
  /\ zoneOf(calc.ref, calc.out) = "valid"

\* C40: from a call of disconnect() until the next call of connect(), the
\* client creates no socket and emits neither 'market_reconnected' nor
\* 'order_reconnected', whatever timers were pending and whatever close
\* events arrive.
C40_QuietAfterDisconnect ==
  [][(ws.closedByUser /\ ws'.closedByUser) =>
       \A e \in log' :
         /\ e.e # "wsAttempt"
         /\ e.e = "wsEmit" =>
              e.ev \notin {"market_reconnected", "order_reconnected"}]_vars

============================================================================
